---- MODULE Spec2Model ----
(***************************************************************************)
(* State-machine model of the IBC host side of axon (core/ibc):            *)
(*   - IbcImpl, the Host Context (src/core/ibc/src/lib.rs): counters,      *)
(*     volatile indices and the keeper operations that write the           *)
(*     commitment store through the adapter;                               *)
(*   - the gRPC services (src/core/ibc/src/grpc.rs): the channel queries   *)
(*     and the CreateClient message handler.                               *)
(* The commitment store is a map from paths to values.  A path is the      *)
(* sequence of the segments of its canonical string                        *)
(* ("commitments/ports/p/channels/c/sequences/1" is                        *)
(* <<"commitments","ports",p,"channels",c,"sequences",1>>), so that prefix *)
(* scans and the typed decoding of a path are computed, not assumed.       *)
(***************************************************************************)
EXTENDS Integers, Sequences, FiniteSets, TLC

VARIABLES
  store,                     \* commitment store behind the adapter: path -> value
  client_counter,            \* IbcImpl.client_counter
  client_processed_times,    \* IbcImpl.client_processed_times (keys recorded)
  client_processed_heights,  \* IbcImpl.client_processed_heights (keys recorded)
  ctx_lock,                  \* holder of the RwLock<Ctx> write guard, 0 when free
  cc_pc,                     \* position of each create_client request
  cc_msg,                    \* the message of each create_client request
  cc_id,                     \* the client id each request constructed
  created,                   \* history: successful creations, in order
  sent,                      \* history: key -> commitment stored and not deleted since
  cleared,                   \* history: keys whose stored commitment was deleted and not stored again
  received,                  \* history: keys for which store_packet_receipt succeeded
  rereceived,                \* history: keys for which it succeeded again after that
  acked,                     \* history: key -> acknowledgement bytes last written
  ack_deleted,               \* history: keys whose non-empty acknowledgement was deleted since
  resp,                      \* the response of the last operation
  nops,                      \* operations started (bounds SpecKeeper)
  conn_counter,              \* IbcImpl.conn_counter
  channel_counter,           \* IbcImpl.channel_counter
  cc_output,                 \* the HandlerOutputBuilder of each create_client request
  cc_resp,                   \* what each create_client request returned to its caller
  last_scan,                 \* history: last PacketCommitments answer since the store changed
  rescanned,                 \* history: that answer was given at least twice
  height,                    \* the store's current height (adapter.current_height())
  consensus_states,          \* IbcImpl.consensus_states: revision height -> host consensus state
  port_to_module_map,        \* IbcImpl.port_to_module_map
  query                      \* a channel query between its data reads and its response

clientVars == <<client_counter, client_processed_times, client_processed_heights,
                ctx_lock, cc_pc, cc_msg, cc_id, created,
                conn_counter, channel_counter, cc_output, cc_resp>>
commitHist == <<sent, cleared>>
receiptHist == <<received, rereceived>>
ackHist == <<acked, ack_deleted>>
packetHist == <<commitHist, receiptHist, ackHist>>
scanHist == <<last_scan, rescanned>>
nodeVars == <<height, consensus_states, port_to_module_map, query>>
vars == <<store, clientVars, packetHist, scanHist, nodeVars, resp, nops>>

(***************************************************************************)
(* Bounds of the model.                                                    *)
(***************************************************************************)
MaxSeq == 1
MaxReqLen == 1
NumRequests == 3
MaxOps == 2
MaxHeight == 2
MaxPathNumber == 11

Ports == {"transfer", "oracle"}
Channels == {"channel-0", "channel-1"}
\* The channels packets are written for; ("oracle", "channel-1") is never written.
PortChannels == {<<"transfer", "channel-0">>, <<"transfer", "channel-1">>,
                 <<"oracle", "channel-0">>}
BadId == "!"
PortStrings == Ports \cup {BadId}
ChannelStrings == Channels \cup {BadId}
Seqs == 1..MaxSeq
Keys == {<<pc[1], pc[2], s>> : pc \in PortChannels, s \in Seqs}
Bytes == {<<>>, <<1>>}
ClientTypes == {"07-tendermint", "9999-mock"}
Requests == 1..NumRequests

RECURSIVE SeqsUpTo(_)
SeqsUpTo(n) ==
  IF n = 0 THEN {<<>>}
  ELSE LET shorter == SeqsUpTo(n - 1)
       IN shorter \cup {Append(q, s) : q \in shorter, s \in Seqs}
SeqLists == SeqsUpTo(MaxReqLen)

(***************************************************************************)
(* Path Model.                                                             *)
(***************************************************************************)
CommitmentsPath(p, c, s) == <<"commitments", "ports", p, "channels", c, "sequences", s>>
AcksPath(p, c, s) == <<"acks", "ports", p, "channels", c, "sequences", s>>
ReceiptsPath(p, c, s) == <<"receipts", "ports", p, "channels", c, "sequences", s>>
ClientTypePath(id) == <<"clients", id, "clientType">>
ClientStatePath(id) == <<"clients", id, "clientState">>
ClientConsensusStatePath(id, h) == <<"clients", id, "consensusStates", h>>

PacketPathKind(head) ==
  IF head = "commitments" THEN "Commitments"
  ELSE IF head = "acks" THEN "Acks"
  ELSE IF head = "receipts" THEN "Receipts"
  ELSE "Invalid"

\* Path -> IbcPath (path.try_into()): the typed decoding of a stored key.
DecodePath(path) ==
  IF /\ Len(path) = 7
     /\ PacketPathKind(path[1]) # "Invalid"
     /\ path[2] = "ports" /\ path[4] = "channels" /\ path[6] = "sequences"
  THEN [kind |-> PacketPathKind(path[1]), port_id |-> path[3],
        channel_id |-> path[5], sequence |-> path[7]]
  ELSE IF Len(path) = 3 /\ path[1] = "clients" /\ path[3] = "clientType"
  THEN [kind |-> "ClientType", client_id |-> path[2]]
  ELSE IF Len(path) = 3 /\ path[1] = "clients" /\ path[3] = "clientState"
  THEN [kind |-> "ClientState", client_id |-> path[2]]
  ELSE IF Len(path) = 4 /\ path[1] = "clients" /\ path[3] = "consensusStates"
  THEN [kind |-> "ClientConsensusState", client_id |-> path[2], height |-> path[4]]
  ELSE IF Len(path) = 3 /\ path[1] = "clients" /\ path[3] = "connections"
  THEN [kind |-> "ClientConnections", client_id |-> path[2]]
  ELSE IF Len(path) = 2 /\ path[1] = "connections"
  THEN [kind |-> "Connections", connection_id |-> path[2]]
  ELSE IF Len(path) = 5 /\ path[1] = "channelEnds" /\ path[2] = "ports" /\ path[4] = "channels"
  THEN [kind |-> "ChannelEnds", port_id |-> path[3], channel_id |-> path[5]]
  ELSE IF /\ Len(path) = 5
          /\ path[1] \in {"nextSequenceSend", "nextSequenceRecv", "nextSequenceAck"}
          /\ path[2] = "ports" /\ path[4] = "channels"
  THEN [kind |-> path[1], port_id |-> path[3], channel_id |-> path[5]]
  ELSE [kind |-> "Invalid"]

HasPrefix(path, prefix) ==
  /\ Len(prefix) <= Len(path)
  /\ \A i \in 1..Len(prefix) : path[i] = prefix[i]

\* PortId::from_str / ChannelId::from_str accept well-formed identifiers only.
ValidIdentifier(s) == s # BadId

(***************************************************************************)
(* Commitment Store Adapter.  Option<T> is a sequence: <<>> is None and    *)
(* <<v>> is Some(v), so Some of empty bytes differs from None.             *)
(***************************************************************************)
EmptyStore == [q \in {} |-> <<>>]
AdapterGet(st, path) == IF path \in DOMAIN st THEN <<st[path]>> ELSE <<>>
AdapterSet(st, path, v) ==
  [q \in (DOMAIN st) \cup {path} |-> IF q = path THEN v ELSE st[q]]
AdapterDelete(st, path) == [q \in (DOMAIN st) \ {path} |-> st[q]]
GetPathsByPrefix(st, prefix) == {q \in DOMAIN st : HasPrefix(q, prefix)}

MapSet(f, k, v) == [x \in (DOMAIN f) \cup {k} |-> IF x = k THEN v ELSE f[x]]
MapDel(f, k) == [x \in (DOMAIN f) \ {k} |-> f[x]]

\* grpc.rs line 63.
CHAIN_REVISION_NUMBER == 0
\* A response that reports no chain height.
NoHeight == <<>>

Reply(op, req, rd, status, body) ==
  [op |-> op, req |-> req, rd |-> rd, status |-> status, body |-> body,
   height |-> NoHeight]

\* height: Some(RawHeight { CHAIN_REVISION_NUMBER, current_height() }) of an
\* Ok response; h is the store's height when the response is built.
WithHeight(reply, h) ==
  IF reply.status = "Ok" THEN [reply EXCEPT !.height = <<CHAIN_REVISION_NUMBER, h>>]
  ELSE reply
NoReply == Reply("none", <<>>, "ok", "Ok", <<>>)
KeeperReply(op, key, ok) ==
  Reply(op, key, IF ok THEN "ok" ELSE "err",
        IF ok THEN "Ok" ELSE "ImplementationSpecific", <<>>)

\* What a create_client request hands back: a tonic status and the events
\* carried by the response.  A panic unwinds the task: the caller gets no
\* status from this service.
Response(status, events) == [status |-> status, events |-> events]
NoResponse == Response("Pending", <<>>)
Panicked == Response("Panic", <<>>)
\* lines 832-834: MsgCreateClientResponse {} has no field, so no event.
MsgCreateClientResponse == Response("Ok", <<>>)

\* No PacketCommitments answer is remembered.
NoScan == [req |-> <<>>, body |-> {}]

\* lib.rs line 263: host_oldest_height() is Height::new(0, 1), the first
\* height of the host chain.
HostOldestHeight == 1

\* No channel query is between its reads and its response.
NoQuery == [pc |-> "none", reply |-> NoReply, data_height |-> HostOldestHeight]

\* The routing table the node is started with.
StartupPortMap == [p \in {"transfer"} |-> "transfer-module"]

Init ==
  /\ store = EmptyStore
  /\ client_counter = 0
  /\ client_processed_times = {}
  /\ client_processed_heights = {}
  /\ ctx_lock = 0
  /\ cc_pc = [r \in Requests |-> "idle"]
  /\ cc_msg = [r \in Requests |-> "none"]
  /\ cc_id = [r \in Requests |-> <<>>]
  /\ created = <<>>
  /\ sent = EmptyStore
  /\ cleared = {}
  /\ received = {}
  /\ rereceived = {}
  /\ acked = EmptyStore
  /\ ack_deleted = {}
  /\ resp = NoReply
  /\ nops = 0
  /\ conn_counter = 0
  /\ channel_counter = 0
  /\ cc_output = [r \in Requests |-> <<>>]
  /\ cc_resp = [r \in Requests |-> NoResponse]
  /\ last_scan = NoScan
  /\ rescanned = FALSE
  /\ height = HostOldestHeight
  /\ consensus_states = EmptyStore
  /\ port_to_module_map = StartupPortMap
  /\ query = NoQuery

(***************************************************************************)
(* Every operation below is one call: it starts when the previous response *)
(* has been handed to its caller (Deliver) and leaves its own response in  *)
(* resp.  `ok` is the outcome of the adapter's write; a failed write       *)
(* changes nothing.                                                        *)
(***************************************************************************)
Deliver ==
  /\ resp # NoReply
  /\ resp' = NoReply
  /\ UNCHANGED <<store, clientVars, packetHist, scanHist, nodeVars, nops>>

(***************************************************************************)
(* ChannelKeeper for IbcImpl: packet commitments.                          *)
(***************************************************************************)
StorePacketCommitment(key, commitment, ok) ==
  /\ resp = NoReply
  /\ store' = IF ok THEN AdapterSet(store, CommitmentsPath(key[1], key[2], key[3]), commitment)
              ELSE store
  /\ sent' = IF ok THEN MapSet(sent, key, commitment) ELSE sent
  /\ cleared' = IF ok THEN cleared \ {key} ELSE cleared
  /\ resp' = KeeperReply("store_packet_commitment", key, ok)
  /\ UNCHANGED <<receiptHist, ackHist, clientVars>>

\* Mutant: the delete writes empty bytes, as delete_packet_acknowledgement does.
DeletePacketCommitment_Tombstone(key, ok) ==
  /\ resp = NoReply
  /\ store' = IF ok THEN AdapterSet(store, CommitmentsPath(key[1], key[2], key[3]), <<>>)
              ELSE store
  /\ sent' = IF ok THEN MapDel(sent, key) ELSE sent
  /\ cleared' = IF ok /\ key \in DOMAIN sent THEN cleared \cup {key} ELSE cleared
  /\ resp' = KeeperReply("delete_packet_commitment", key, ok)
  /\ UNCHANGED <<receiptHist, ackHist, clientVars>>

\* Mutant: the delete also removes the packet's receipt.
DeletePacketCommitment_DropsReceipt(key, ok) ==
  /\ resp = NoReply
  /\ store' = IF ok
              THEN AdapterDelete(AdapterDelete(store, CommitmentsPath(key[1], key[2], key[3])),
                                 ReceiptsPath(key[1], key[2], key[3]))
              ELSE store
  /\ sent' = IF ok THEN MapDel(sent, key) ELSE sent
  /\ cleared' = IF ok /\ key \in DOMAIN sent THEN cleared \cup {key} ELSE cleared
  /\ resp' = KeeperReply("delete_packet_commitment", key, ok)
  /\ UNCHANGED <<receiptHist, ackHist, clientVars>>

DeletePacketCommitment(key, ok) ==
  /\ resp = NoReply
  /\ store' = IF ok THEN AdapterDelete(store, CommitmentsPath(key[1], key[2], key[3]))
              ELSE store
  /\ sent' = IF ok THEN MapDel(sent, key) ELSE sent
  /\ cleared' = IF ok /\ key \in DOMAIN sent THEN cleared \cup {key} ELSE cleared
  /\ resp' = KeeperReply("delete_packet_commitment", key, ok)
  /\ UNCHANGED <<receiptHist, ackHist, clientVars>>

(***************************************************************************)
(* ChannelQuery for IbcChannelService.  `rd` is the outcome of the         *)
(* adapter's reads during the call: "ok", "scan_err" (get_paths_by_prefix  *)
(* fails) or "get_err" (every point lookup fails).  A request with a       *)
(* malformed identifier is rejected before any read, so one read mode and  *)
(* one sequence list represent it.                                         *)
(***************************************************************************)
ReadModes == {"ok", "scan_err", "get_err"}
ValidRequest(port, channel) == ValidIdentifier(port) /\ ValidIdentifier(channel)

\* Mutant: the filter compares the port only.
MatchingCommitmentPaths_AnyChannel(st, port_id, channel_id) ==
  {q \in GetPathsByPrefix(st, <<"commitments", "ports">>) :
     LET p == DecodePath(q)
     IN p.kind = "Commitments" /\ p.port_id = port_id}

MatchingCommitmentPaths(st, port_id, channel_id) ==
  {q \in GetPathsByPrefix(st, <<"commitments", "ports">>) :
     LET p == DecodePath(q)
     IN p.kind = "Commitments" /\ p.port_id = port_id /\ p.channel_id = channel_id}

\* Mutant: the is_empty test of line 583 is missing.
PacketCommitmentsReply_KeepsEmpty(st, port, channel, rd) ==
  IF ~ValidRequest(port, channel)
  THEN Reply("PacketCommitments", <<port, channel>>, rd, "InvalidArgument", {})
  ELSE IF rd = "scan_err"
  THEN Reply("PacketCommitments", <<port, channel>>, rd, "Internal", {})
  ELSE LET paths == MatchingCommitmentPaths(st, port, channel)
       IN IF rd = "get_err" /\ paths # {}
          THEN Reply("PacketCommitments", <<port, channel>>, rd, "DataLoss", {})
          ELSE Reply("PacketCommitments", <<port, channel>>, rd, "Ok",
                     {[sequence |-> DecodePath(q).sequence, data |-> AdapterGet(st, q)[1]] :
                        q \in paths})

PacketCommitmentsReply(st, port, channel, rd) ==
  IF ~ValidRequest(port, channel)
  THEN Reply("PacketCommitments", <<port, channel>>, rd, "InvalidArgument", {})
  ELSE IF rd = "scan_err"
  THEN Reply("PacketCommitments", <<port, channel>>, rd, "Internal", {})
  ELSE LET paths == MatchingCommitmentPaths(st, port, channel)
       IN IF rd = "get_err" /\ paths # {}
          THEN Reply("PacketCommitments", <<port, channel>>, rd, "DataLoss", {})
          ELSE Reply("PacketCommitments", <<port, channel>>, rd, "Ok",
                     {[sequence |-> DecodePath(q).sequence, data |-> AdapterGet(st, q)[1]] :
                        q \in {x \in paths : AdapterGet(st, x)[1] # <<>>}})

PacketCommitments(port, channel, rd) ==
  /\ resp = NoReply
  /\ ValidRequest(port, channel) \/ rd = "ok"
  /\ resp' = WithHeight(PacketCommitmentsReply(store, port, channel, rd), height)
  /\ UNCHANGED <<store, packetHist, clientVars>>

\* Mutant: the filter keeps the sequences without a commitment (is_none).
UnreceivedAcksReply_Inverted(st, port, channel, seqs, rd) ==
  IF ~ValidRequest(port, channel)
  THEN Reply("UnreceivedAcks", <<port, channel, seqs>>, rd, "InvalidArgument", <<>>)
  ELSE LET Unreceived(s) ==
             \/ rd # "ok"
             \/ AdapterGet(st, CommitmentsPath(port, channel, s)) = <<>>
       IN Reply("UnreceivedAcks", <<port, channel, seqs>>, rd, "Ok",
                SelectSeq(seqs, Unreceived))

UnreceivedAcksReply(st, port, channel, seqs, rd) ==
  IF ~ValidRequest(port, channel)
  THEN Reply("UnreceivedAcks", <<port, channel, seqs>>, rd, "InvalidArgument", <<>>)
  ELSE LET Unreceived(s) ==
             /\ rd = "ok"
             /\ AdapterGet(st, CommitmentsPath(port, channel, s)) # <<>>
       IN Reply("UnreceivedAcks", <<port, channel, seqs>>, rd, "Ok",
                SelectSeq(seqs, Unreceived))

UnreceivedAcks(port, channel, seqs, rd) ==
  /\ resp = NoReply
  /\ ValidRequest(port, channel) \/ (rd = "ok" /\ seqs = <<>>)
  /\ resp' = WithHeight(UnreceivedAcksReply(store, port, channel, seqs, rd), height)
  /\ UNCHANGED <<store, packetHist, clientVars>>

(***************************************************************************)
(* ChannelKeeper for IbcImpl: packet receipts, and the UnreceivedPackets   *)
(* query that reads them.                                                  *)
(***************************************************************************)
ReceiptOk == "Ok"

\* Mutant: a receipt that exists already is refused.
StorePacketReceipt_RejectsDuplicate(key, ok) ==
  /\ resp = NoReply
  /\ store' = IF ok THEN AdapterSet(store, ReceiptsPath(key[1], key[2], key[3]), ReceiptOk)
              ELSE store
  /\ received' = IF ok THEN received \cup {key} ELSE received
  /\ rereceived' = IF ok /\ key \in received THEN rereceived \cup {key} ELSE rereceived
  /\ resp' = IF ok /\ ReceiptsPath(key[1], key[2], key[3]) \in DOMAIN store
             THEN Reply("store_packet_receipt", key, "ok", "ImplementationSpecific", <<>>)
             ELSE KeeperReply("store_packet_receipt", key, ok)
  /\ UNCHANGED <<commitHist, ackHist, clientVars>>

StorePacketReceipt(key, ok) ==
  /\ resp = NoReply
  /\ store' = IF ok THEN AdapterSet(store, ReceiptsPath(key[1], key[2], key[3]), ReceiptOk)
              ELSE store
  /\ received' = IF ok THEN received \cup {key} ELSE received
  /\ rereceived' = IF ok /\ key \in received THEN rereceived \cup {key} ELSE rereceived
  /\ resp' = KeeperReply("store_packet_receipt", key, ok)
  /\ UNCHANGED <<commitHist, ackHist, clientVars>>

\* Mutant: the lookup uses the commitment path of the packet.
UnreceivedPacketsReply_ReadsCommitments(st, port, channel, seqs, rd) ==
  IF ~ValidRequest(port, channel)
  THEN Reply("UnreceivedPackets", <<port, channel, seqs>>, rd, "InvalidArgument", <<>>)
  ELSE LET packet_receipt(s) ==
             IF rd = "ok" THEN AdapterGet(st, CommitmentsPath(port, channel, s)) ELSE <<>>
           Unreceived(s) == packet_receipt(s) = <<>>
       IN Reply("UnreceivedPackets", <<port, channel, seqs>>, rd, "Ok",
                SelectSeq(seqs, Unreceived))

UnreceivedPacketsReply(st, port, channel, seqs, rd) ==
  IF ~ValidRequest(port, channel)
  THEN Reply("UnreceivedPackets", <<port, channel, seqs>>, rd, "InvalidArgument", <<>>)
  ELSE LET packet_receipt(s) ==
             IF rd = "ok" THEN AdapterGet(st, ReceiptsPath(port, channel, s)) ELSE <<>>
           Unreceived(s) == packet_receipt(s) = <<>>
       IN Reply("UnreceivedPackets", <<port, channel, seqs>>, rd, "Ok",
                SelectSeq(seqs, Unreceived))

UnreceivedPackets(port, channel, seqs, rd) ==
  /\ resp = NoReply
  /\ ValidRequest(port, channel) \/ (rd = "ok" /\ seqs = <<>>)
  /\ resp' = WithHeight(UnreceivedPacketsReply(store, port, channel, seqs, rd), height)
  /\ UNCHANGED <<store, packetHist, clientVars>>

(***************************************************************************)
(* ChannelKeeper for IbcImpl: packet acknowledgements, and the             *)
(* PacketAcknowledgements query.  delete_packet_acknowledgement is a call  *)
(* of store_packet_acknowledgement with empty bytes.                       *)
(***************************************************************************)
PutPacketAcknowledgement(op, key, ack_commitment, ok) ==
  /\ resp = NoReply
  /\ store' = IF ok THEN AdapterSet(store, AcksPath(key[1], key[2], key[3]), ack_commitment)
              ELSE store
  /\ acked' = IF ok THEN MapSet(acked, key, ack_commitment) ELSE acked
  /\ ack_deleted' =
       IF ~ok THEN ack_deleted
       ELSE IF op = "store_packet_acknowledgement" THEN ack_deleted \ {key}
       ELSE IF key \in DOMAIN acked /\ acked[key] # <<>> THEN ack_deleted \cup {key}
       ELSE ack_deleted
  /\ resp' = KeeperReply(op, key, ok)
  /\ UNCHANGED <<commitHist, receiptHist, clientVars>>

StorePacketAcknowledgement(key, ack_commitment, ok) ==
  PutPacketAcknowledgement("store_packet_acknowledgement", key, ack_commitment, ok)

DeletePacketAcknowledgement(key, ok) ==
  PutPacketAcknowledgement("delete_packet_acknowledgement", key, <<>>, ok)

MatchingAckPaths(st, port_id, channel_id) ==
  {q \in GetPathsByPrefix(st, <<"acks", "ports">>) :
     LET p == DecodePath(q)
     IN p.kind = "Acks" /\ p.port_id = port_id /\ p.channel_id = channel_id}

\* Mutant: the is_empty test is missing.
PacketAcknowledgementsReply_KeepsEmpty(st, port, channel, rd) ==
  IF ~ValidRequest(port, channel)
  THEN Reply("PacketAcknowledgements", <<port, channel>>, rd, "InvalidArgument", {})
  ELSE IF rd = "scan_err"
  THEN Reply("PacketAcknowledgements", <<port, channel>>, rd, "Internal", {})
  ELSE LET paths == MatchingAckPaths(st, port, channel)
       IN IF rd = "get_err" /\ paths # {}
          THEN Reply("PacketAcknowledgements", <<port, channel>>, rd, "DataLoss", {})
          ELSE Reply("PacketAcknowledgements", <<port, channel>>, rd, "Ok",
                     {[sequence |-> DecodePath(q).sequence, data |-> AdapterGet(st, q)[1]] :
                        q \in {x \in paths : AdapterGet(st, x) # <<>>}})

PacketAcknowledgementsReply(st, port, channel, rd) ==
  IF ~ValidRequest(port, channel)
  THEN Reply("PacketAcknowledgements", <<port, channel>>, rd, "InvalidArgument", {})
  ELSE IF rd = "scan_err"
  THEN Reply("PacketAcknowledgements", <<port, channel>>, rd, "Internal", {})
  ELSE LET paths == MatchingAckPaths(st, port, channel)
       IN IF rd = "get_err" /\ paths # {}
          THEN Reply("PacketAcknowledgements", <<port, channel>>, rd, "DataLoss", {})
          ELSE Reply("PacketAcknowledgements", <<port, channel>>, rd, "Ok",
                     {[sequence |-> DecodePath(q).sequence, data |-> AdapterGet(st, q)[1]] :
                        q \in {x \in paths : AdapterGet(st, x) # <<>>
                                             /\ AdapterGet(st, x)[1] # <<>>}})

PacketAcknowledgements(port, channel, rd) ==
  /\ resp = NoReply
  /\ ValidRequest(port, channel) \/ rd = "ok"
  /\ resp' = WithHeight(PacketAcknowledgementsReply(store, port, channel, rd), height)
  /\ UNCHANGED <<store, packetHist, clientVars>>

(***************************************************************************)
(* ClientMsg for IbcClientMsgService: create_client, one step per lock or  *)
(* store access.  Requests run concurrently; each holds the write guard of *)
(* RwLock<Ctx> from line 800 to its return.                                *)
(***************************************************************************)
Malformed == "malformed"
Messages == ClientTypes \cup {Malformed}
MsgHeight == <<0, 1>>

ClientIdNew(client_type, counter) == <<client_type, counter>>
CreateClientEvent(client_id) == [type |-> "CreateClient", client_id |-> client_id]
\* Mutant: the counter advances by two.
IncreaseClientCounter_ByTwo(counter) == counter + 2
IncreaseClientCounter(counter) == counter + 1

\* lines 794-795: decode the request; try_from(...).unwrap() aborts the task.
CcCall(r, msg) ==
  /\ cc_pc[r] = "idle"
  /\ cc_msg' = [cc_msg EXCEPT ![r] = msg]
  /\ cc_pc' = [cc_pc EXCEPT ![r] = IF msg = Malformed THEN "panicked" ELSE "decoded"]
  /\ cc_resp' = [cc_resp EXCEPT ![r] = IF msg = Malformed THEN Panicked ELSE NoResponse]
  /\ UNCHANGED <<store, client_counter, client_processed_times, client_processed_heights,
                 ctx_lock, cc_id, created, packetHist, resp,
                 conn_counter, channel_counter, cc_output>>

\* Mutant: the guard is taken without excluding the other requests.
CcLock_NotExclusive(r) ==
  /\ cc_pc[r] = "decoded"
  /\ ctx_lock' = r
  /\ cc_id' = [cc_id EXCEPT ![r] = ClientIdNew(cc_msg[r], client_counter)]
  /\ cc_pc' = [cc_pc EXCEPT ![r] = "locked"]
  /\ cc_output' = [cc_output EXCEPT ![r] =
                     <<CreateClientEvent(ClientIdNew(cc_msg[r], client_counter))>>]
  /\ UNCHANGED <<store, client_counter, client_processed_times, client_processed_heights,
                 cc_msg, created, packetHist, resp,
                 conn_counter, channel_counter, cc_resp>>

\* lines 800-806: take the write guard, read the counter, build the client id.
CcLock(r) ==
  /\ cc_pc[r] = "decoded"
  /\ ctx_lock = 0
  /\ ctx_lock' = r
  /\ cc_id' = [cc_id EXCEPT ![r] = ClientIdNew(cc_msg[r], client_counter)]
  /\ cc_pc' = [cc_pc EXCEPT ![r] = "locked"]
  /\ cc_output' = [cc_output EXCEPT ![r] =
                     <<CreateClientEvent(ClientIdNew(cc_msg[r], client_counter))>>]
  /\ UNCHANGED <<store, client_counter, client_processed_times, client_processed_heights,
                 cc_msg, created, packetHist, resp,
                 conn_counter, channel_counter, cc_resp>>

\* Mutant: the guard is kept by a request that ended with an error.
CcStore_KeepsGuard(r, from, to, path, value, ok) ==
  /\ cc_pc[r] = from
  /\ store' = IF ok THEN AdapterSet(store, path, value) ELSE store
  /\ cc_pc' = [cc_pc EXCEPT ![r] = IF ok THEN to ELSE "failed"]
  /\ cc_resp' = [cc_resp EXCEPT ![r] =
                   IF ok THEN cc_resp[r] ELSE Response("InvalidArgument", <<>>)]
  /\ cc_output' = [cc_output EXCEPT ![r] = IF ok THEN cc_output[r] ELSE <<>>]
  /\ UNCHANGED <<client_counter, client_processed_times, client_processed_heights,
                 ctx_lock, cc_msg, cc_id, created, packetHist, resp,
                 conn_counter, channel_counter>>

\* One keeper write of store_client_result; its error ends the request and
\* drops the guard.
CcStore(r, from, to, path, value, ok) ==
  /\ cc_pc[r] = from
  /\ store' = IF ok THEN AdapterSet(store, path, value) ELSE store
  /\ cc_pc' = [cc_pc EXCEPT ![r] = IF ok THEN to ELSE "failed"]
  /\ ctx_lock' = IF ok THEN ctx_lock ELSE 0
  /\ cc_resp' = [cc_resp EXCEPT ![r] =
                   IF ok THEN cc_resp[r] ELSE Response("InvalidArgument", <<>>)]
  /\ cc_output' = [cc_output EXCEPT ![r] = IF ok THEN cc_output[r] ELSE <<>>]
  /\ UNCHANGED <<client_counter, client_processed_times, client_processed_heights,
                 cc_msg, cc_id, created, packetHist, resp,
                 conn_counter, channel_counter>>

CcStoreClientType(r, ok) ==
  CcStore(r, "locked", "type_stored", ClientTypePath(cc_id[r]), cc_msg[r], ok)

CcStoreClientState(r, ok) ==
  CcStore(r, "type_stored", "state_stored", ClientStatePath(cc_id[r]),
          <<"client_state", cc_msg[r]>>, ok)

CcStoreConsensusState(r, ok) ==
  CcStore(r, "state_stored", "consensus_stored",
          ClientConsensusStatePath(cc_id[r], MsgHeight), <<"consensus_state", cc_msg[r]>>, ok)

\* increase_client_counter, store_update_time, store_update_height, then
\* Ok(response); the guard is dropped on return.
CcFinish(r) ==
  /\ cc_pc[r] = "consensus_stored"
  /\ client_counter' = IncreaseClientCounter(client_counter)
  /\ client_processed_times' = client_processed_times \cup {<<cc_id[r], MsgHeight>>}
  /\ client_processed_heights' = client_processed_heights \cup {<<cc_id[r], MsgHeight>>}
  /\ created' = Append(created, [req |-> r, client_id |-> cc_id[r]])
  /\ cc_pc' = [cc_pc EXCEPT ![r] = "done"]
  /\ ctx_lock' = 0
  /\ cc_resp' = [cc_resp EXCEPT ![r] = MsgCreateClientResponse]
  /\ cc_output' = [cc_output EXCEPT ![r] = <<>>]
  /\ UNCHANGED <<store, cc_msg, cc_id, packetHist, resp, conn_counter, channel_counter>>

(***************************************************************************)
(* A panic inside the write section of create_client.  The unwrap() of the *)
(* client id construction (lines 802-806) and the calls host_timestamp()   *)
(* and host_height() (lines 817-818) run while the guard of line 800 is    *)
(* held.  std::sync::RwLock is poisoned when a task panics with the write  *)
(* guard: the guard is dropped by the unwinding, and every later write()   *)
(* returns Err, on which line 800 calls unwrap().                          *)
(***************************************************************************)
Poisoned == 0 - 1

CcAbort(r) ==
  /\ cc_pc[r] = "locked"
  /\ ctx_lock' = Poisoned
  /\ cc_pc' = [cc_pc EXCEPT ![r] = "panicked"]
  /\ cc_resp' = [cc_resp EXCEPT ![r] = Panicked]
  /\ cc_output' = [cc_output EXCEPT ![r] = <<>>]
  /\ UNCHANGED <<store, client_counter, client_processed_times, client_processed_heights,
                 cc_msg, cc_id, created, packetHist, resp, conn_counter, channel_counter>>

\* line 800 on a poisoned lock: self.ctx.write().unwrap() panics.
CcLockPoisoned(r) ==
  /\ cc_pc[r] = "decoded"
  /\ ctx_lock = Poisoned
  /\ cc_pc' = [cc_pc EXCEPT ![r] = "panicked"]
  /\ cc_resp' = [cc_resp EXCEPT ![r] = Panicked]
  /\ UNCHANGED <<store, client_counter, client_processed_times, client_processed_heights,
                 ctx_lock, cc_msg, cc_id, created, packetHist, resp, conn_counter,
                 channel_counter, cc_output>>

(***************************************************************************)
(* ClientMsg for IbcClientMsgService: update_client, upgrade_client and    *)
(* submit_misbehaviour.  The body of each is unimplemented!(), a panic:    *)
(* the task of the request unwinds before any access to the context, and   *)
(* no tonic::Status is returned.                                           *)
(***************************************************************************)
UnimplementedHandlers == {"UpdateClient", "UpgradeClient", "SubmitMisbehaviour"}

UnimplementedHandler(op) ==
  /\ resp = NoReply
  /\ resp' = Reply(op, <<>>, "ok", "Panic", <<>>)
  /\ UNCHANGED <<store, packetHist, clientVars>>

UpdateClient == UnimplementedHandler("UpdateClient")
UpgradeClient == UnimplementedHandler("UpgradeClient")
SubmitMisbehaviour == UnimplementedHandler("SubmitMisbehaviour")

(***************************************************************************)
(* ConnectionKeeper for IbcImpl: connection ends and the client ->         *)
(* connections index, and the ClientConnections query that reads the       *)
(* index.  store_connection hands the connection end it is given to the    *)
(* adapter; it reads nothing and compares nothing.                         *)
(***************************************************************************)
ConnectionIds == {"connection-0", "connection-1"}
ConnStates == {"Init", "TryOpen", "Open"}
ConnectionEnds == [state : ConnStates]
ConnRank(state) == IF state = "Init" THEN 1 ELSE IF state = "TryOpen" THEN 2 ELSE 3
IndexedClient == ClientIdNew("07-tendermint", 0)
\* A request's client_id string: a well-formed one, and one parse() refuses.
BadClientId == ClientIdNew(BadId, 0)
ClientIdStrings == {IndexedClient, BadClientId}
ValidClientId(client_id) == ValidIdentifier(client_id[1])

ConnectionsPath(conn_id) == <<"connections", conn_id>>
ClientConnectionsPath(client_id) == <<"clients", client_id, "connections">>

StoreConnection(connection_id, connection_end, ok) ==
  /\ resp = NoReply
  /\ store' = IF ok THEN AdapterSet(store, ConnectionsPath(connection_id), connection_end)
              ELSE store
  /\ resp' = KeeperReply("store_connection", <<connection_id, connection_end>>, ok)
  /\ UNCHANGED <<packetHist, clientVars>>

\* set_connection_to_client adds the connection to the client's index.
AdapterAddConnection(st, client_id, connection_id) ==
  LET path == ClientConnectionsPath(client_id)
      old == IF path \in DOMAIN st THEN st[path] ELSE {}
  IN AdapterSet(st, path, old \cup {connection_id})

StoreConnectionToClient(connection_id, client_id, ok) ==
  /\ resp = NoReply
  /\ store' = IF ok THEN AdapterAddConnection(store, client_id, connection_id) ELSE store
  /\ resp' = KeeperReply("store_connection_to_client", <<connection_id, client_id>>, ok)
  /\ UNCHANGED <<packetHist, clientVars>>

\* lines 350-354: get_connection_ids(..).unwrap_or_default().
ClientConnectionsReply(st, client_id, rd) ==
  IF ~ValidClientId(client_id)
  THEN Reply("ClientConnections", <<client_id>>, rd, "InvalidArgument", {})
  ELSE LET path == ClientConnectionsPath(client_id)
           connection_ids == IF rd = "ok" /\ path \in DOMAIN st THEN st[path] ELSE {}
       IN Reply("ClientConnections", <<client_id>>, rd, "Ok", connection_ids)

ClientConnections(client_id, rd) ==
  /\ resp = NoReply
  /\ ValidClientId(client_id) \/ rd = "ok"
  /\ resp' = ClientConnectionsReply(store, client_id, rd)
  /\ UNCHANGED <<store, packetHist, clientVars>>

(***************************************************************************)
(* Channel ends: ChannelKeeper::store_channel, and the Channels and        *)
(* ConnectionChannels queries.  A channel end is its list of connection    *)
(* hops.  The scan of the adapter has one more fault: "stray", the adapter *)
(* enumerates every stored path whatever the prefix.                       *)
(***************************************************************************)
ChannelKeys == {<<"transfer", "channel-0">>, <<"oracle", "channel-0">>}
ChannelEnds == [connection_hops : {<<>>, <<"connection-0">>, <<"connection-1", "connection-0">>}]
ConnectionIdStrings == ConnectionIds \cup {BadId}
ScanFaults == {"ok", "scan_err", "get_err", "stray"}
ChannelEndsPath(p, c) == <<"channelEnds", "ports", p, "channels", c>>

ScanPaths(st, prefix, rd) ==
  IF rd = "stray" THEN DOMAIN st ELSE GetPathsByPrefix(st, prefix)

StoreChannel(port_channel, channel_end, ok) ==
  /\ resp = NoReply
  /\ store' = IF ok THEN AdapterSet(store, ChannelEndsPath(port_channel[1], port_channel[2]),
                                    channel_end)
              ELSE store
  /\ resp' = KeeperReply("store_channel", <<port_channel, channel_end>>, ok)
  /\ UNCHANGED <<packetHist, clientVars>>

IdentifiedChannelEnd(st, path) ==
  [port_id |-> DecodePath(path).port_id, channel_id |-> DecodePath(path).channel_id,
   channel_end |-> AdapterGet(st, path)[1]]

\* Mutant: an empty scan is answered with NotFound.
ChannelsReply_EmptyIsNotFound(st, rd) ==
  IF rd = "scan_err" THEN Reply("Channels", <<>>, rd, "Internal", {})
  ELSE LET channel_paths == ScanPaths(st, <<"channelEnds", "ports">>, rd)
       IN IF \E q \in channel_paths : DecodePath(q).kind # "ChannelEnds"
          THEN Reply("Channels", <<>>, rd, "Panic", {})
          ELSE IF rd = "get_err" /\ channel_paths # {}
          THEN Reply("Channels", <<>>, rd, "DataLoss", {})
          ELSE IF channel_paths = {}
          THEN Reply("Channels", <<>>, rd, "NotFound", {})
          ELSE Reply("Channels", <<>>, rd, "Ok",
                     {IdentifiedChannelEnd(st, q) : q \in channel_paths})

\* Mutant: a path of another kind is skipped.
ChannelsReply_SkipsForeign(st, rd) ==
  IF rd = "scan_err" THEN Reply("Channels", <<>>, rd, "Internal", {})
  ELSE LET channel_paths == {q \in ScanPaths(st, <<"channelEnds", "ports">>, rd) :
                               DecodePath(q).kind = "ChannelEnds"}
       IN IF rd = "get_err" /\ channel_paths # {}
          THEN Reply("Channels", <<>>, rd, "DataLoss", {})
          ELSE Reply("Channels", <<>>, rd, "Ok",
                     {IdentifiedChannelEnd(st, q) : q \in channel_paths})

\* lines 430-465: the match at 441-455 panics on any path that is not a
\* ChannelEnds path.
ChannelsReply(st, rd) ==
  IF rd = "scan_err" THEN Reply("Channels", <<>>, rd, "Internal", {})
  ELSE LET channel_paths == ScanPaths(st, <<"channelEnds", "ports">>, rd)
       IN IF \E q \in channel_paths : DecodePath(q).kind # "ChannelEnds"
          THEN Reply("Channels", <<>>, rd, "Panic", {})
          ELSE IF rd = "get_err" /\ channel_paths # {}
          THEN Reply("Channels", <<>>, rd, "DataLoss", {})
          ELSE Reply("Channels", <<>>, rd, "Ok",
                     {IdentifiedChannelEnd(st, q) : q \in channel_paths})

ChannelsQuery(rd) ==
  /\ resp = NoReply
  /\ resp' = WithHeight(ChannelsReply(store, rd), height)
  /\ UNCHANGED <<store, packetHist, clientVars, nodeVars>>

\* Mutant: any hop of the channel end may be the connection.
FirstHopIs_AnyHop(channel_end, conn_id) ==
  \E i \in 1..Len(channel_end.connection_hops) : channel_end.connection_hops[i] = conn_id

\* connection_hops.first() == Some(&conn_id)
FirstHopIs(channel_end, conn_id) ==
  /\ channel_end.connection_hops # <<>>
  /\ Head(channel_end.connection_hops) = conn_id

\* lines 474-511: paths that are not ChannelEnds paths are skipped.
ConnectionChannelsReply(st, connection, rd) ==
  IF ~ValidIdentifier(connection)
  THEN Reply("ConnectionChannels", <<connection>>, rd, "InvalidArgument", {})
  ELSE IF rd = "scan_err"
  THEN Reply("ConnectionChannels", <<connection>>, rd, "Internal", {})
  ELSE LET keys == {q \in ScanPaths(st, <<"channelEnds">>, rd) :
                      DecodePath(q).kind = "ChannelEnds"}
       IN IF rd = "get_err" /\ keys # {}
          THEN Reply("ConnectionChannels", <<connection>>, rd, "DataLoss", {})
          ELSE Reply("ConnectionChannels", <<connection>>, rd, "Ok",
                     {IdentifiedChannelEnd(st, q) :
                        q \in {x \in keys : FirstHopIs(AdapterGet(st, x)[1], connection)}})

\* Mutant: the query removes the channel ends with no hop that it meets.
ConnectionChannels_Prunes(connection, rd) ==
  /\ resp = NoReply
  /\ ValidIdentifier(connection) \/ rd = "ok"
  /\ resp' = WithHeight(ConnectionChannelsReply(store, connection, rd), height)
  /\ store' = [q \in {x \in DOMAIN store :
                        \/ DecodePath(x).kind # "ChannelEnds"
                        \/ store[x].connection_hops # <<>>} |-> store[q]]
  /\ UNCHANGED <<packetHist, clientVars, nodeVars>>

ConnectionChannels(connection, rd) ==
  /\ resp = NoReply
  /\ ValidIdentifier(connection) \/ rd = "ok"
  /\ resp' = WithHeight(ConnectionChannelsReply(store, connection, rd), height)
  /\ UNCHANGED <<store, packetHist, clientVars, nodeVars>>

(***************************************************************************)
(* The point queries Connection and Channel, the ClientStates query and    *)
(* the keeper write of a client state.                                     *)
(***************************************************************************)
StoreClientState(client_id, ok) ==
  /\ resp = NoReply
  /\ store' = IF ok THEN AdapterSet(store, ClientStatePath(client_id),
                                    <<"client_state", client_id>>)
              ELSE store
  /\ resp' = KeeperReply("store_client_state", client_id, ok)
  /\ UNCHANGED <<packetHist, clientVars>>

\* Mutant: a connection that is not stored is answered with NotFound.
ConnectionReply_NotFound(st, connection_id, rd) ==
  IF ~ValidIdentifier(connection_id)
  THEN Reply("Connection", <<connection_id>>, rd, "InvalidArgument", <<>>)
  ELSE IF rd = "get_err"
  THEN Reply("Connection", <<connection_id>>, rd, "DataLoss", <<>>)
  ELSE IF AdapterGet(st, ConnectionsPath(connection_id)) = <<>>
  THEN Reply("Connection", <<connection_id>>, rd, "NotFound", <<>>)
  ELSE Reply("Connection", <<connection_id>>, rd, "Ok",
             AdapterGet(st, ConnectionsPath(connection_id)))

\* lines 286-297: connection: conn.map(..), an Option.
ConnectionReply(st, connection_id, rd) ==
  IF ~ValidIdentifier(connection_id)
  THEN Reply("Connection", <<connection_id>>, rd, "InvalidArgument", <<>>)
  ELSE IF rd = "get_err"
  THEN Reply("Connection", <<connection_id>>, rd, "DataLoss", <<>>)
  ELSE Reply("Connection", <<connection_id>>, rd, "Ok",
             AdapterGet(st, ConnectionsPath(connection_id)))

Connection(connection_id, rd) ==
  /\ resp = NoReply
  /\ ValidIdentifier(connection_id) \/ rd = "ok"
  /\ resp' = ConnectionReply(store, connection_id, rd)
  /\ UNCHANGED <<store, packetHist, clientVars, nodeVars>>

\* lines 405-422: channel: channel_opt, an Option.
ChannelReply(st, port, channel, rd) ==
  IF ~ValidRequest(port, channel)
  THEN Reply("Channel", <<port, channel>>, rd, "InvalidArgument", <<>>)
  ELSE IF rd = "get_err"
  THEN Reply("Channel", <<port, channel>>, rd, "DataLoss", <<>>)
  ELSE Reply("Channel", <<port, channel>>, rd, "Ok",
             AdapterGet(st, ChannelEndsPath(port, channel)))

Channel(port, channel, rd) ==
  /\ resp = NoReply
  /\ ValidRequest(port, channel) \/ rd = "ok"
  /\ resp' = ChannelReply(store, port, channel, rd)
  /\ UNCHANGED <<store, packetHist, clientVars, nodeVars>>

\* lines 145-179: the paths that are not ClientState paths are filtered out.
ClientStatesReply(st, rd) ==
  IF rd = "scan_err" THEN Reply("ClientStates", <<>>, rd, "Internal", {})
  ELSE LET keys == {q \in ScanPaths(st, <<"clients">>, rd) :
                      DecodePath(q).kind = "ClientState"}
       IN IF rd = "get_err" /\ keys # {}
          THEN Reply("ClientStates", <<>>, rd, "DataLoss", {})
          ELSE Reply("ClientStates", <<>>, rd, "Ok",
                     {[client_id |-> DecodePath(q).client_id,
                       client_state |-> AdapterGet(st, q)] : q \in keys})

\* Mutant: the query waits until the write lock of the Host Context is free.
ClientStates_TakesCtxLock(rd) ==
  /\ resp = NoReply
  /\ ctx_lock = 0
  /\ resp' = ClientStatesReply(store, rd)
  /\ UNCHANGED <<store, packetHist, clientVars, nodeVars>>

ClientStates(rd) ==
  /\ resp = NoReply
  /\ resp' = ClientStatesReply(store, rd)
  /\ UNCHANGED <<store, packetHist, clientVars, nodeVars>>

(***************************************************************************)
(* ClientReader for IbcImpl: client_type, client_state, consensus_state,   *)
(* and the keeper write of a client type.                                  *)
(***************************************************************************)
StoreClientType(client_id, ok) ==
  /\ resp = NoReply
  /\ store' = IF ok THEN AdapterSet(store, ClientTypePath(client_id), client_id[1])
              ELSE store
  /\ resp' = KeeperReply("store_client_type", client_id, ok)
  /\ UNCHANGED <<packetHist, clientVars>>

\* Mutant: a missing entity is answered with a default value.
ClientReadResult_Defaults(st, path, rd) ==
  IF rd = "ok" /\ AdapterGet(st, path) # <<>>
  THEN [status |-> "Ok", body |-> AdapterGet(st, path)[1]]
  ELSE [status |-> "Ok", body |-> <<>>]

\* match adapter.get_*(..) { Ok(Some(v)) => Ok(v), _ => Err(implementation_specific()) }
ClientReadResult(st, path, rd) ==
  IF rd = "ok" /\ AdapterGet(st, path) # <<>>
  THEN [status |-> "Ok", body |-> AdapterGet(st, path)[1]]
  ELSE [status |-> "ImplementationSpecific", body |-> <<>>]

ClientType(client_id, rd) ==
  /\ resp = NoReply
  /\ LET res == ClientReadResult(store, ClientTypePath(client_id), rd)
     IN resp' = Reply("client_type", <<client_id>>, rd, res.status, res.body)
  /\ UNCHANGED <<store, packetHist, clientVars, nodeVars>>

ClientState(client_id, rd) ==
  /\ resp = NoReply
  /\ LET res == ClientReadResult(store, ClientStatePath(client_id), rd)
     IN resp' = Reply("client_state", <<client_id>>, rd, res.status, res.body)
  /\ UNCHANGED <<store, packetHist, clientVars, nodeVars>>

ConsensusState(client_id, h, rd) ==
  /\ resp = NoReply
  /\ LET res == ClientReadResult(store, ClientConsensusStatePath(client_id, h), rd)
     IN resp' = Reply("consensus_state", <<client_id, h>>, rd, res.status, res.body)
  /\ UNCHANGED <<store, packetHist, clientVars, nodeVars>>

(***************************************************************************)
(* A query handler in two steps.  The handlers are async and share the     *)
(* adapter with the writers: they read their data first, and they read     *)
(* current_height() when they build the response, so that blocks and       *)
(* writes may come in between.                                             *)
(***************************************************************************)
ReadData(reply) ==
  /\ query.pc # "read"
  /\ query' = [pc |-> "read", reply |-> reply, data_height |-> height]
  /\ UNCHANGED <<store, clientVars, packetHist, resp, height, consensus_states,
                 port_to_module_map>>

\* Mutant: the response carries the height at which the data was read.
BuildResponse_HeightOfRead ==
  /\ query.pc = "read"
  /\ resp = NoReply
  /\ resp' = WithHeight(query.reply, query.data_height)
  /\ query' = [query EXCEPT !.pc = "done"]
  /\ UNCHANGED <<store, clientVars, packetHist, height, consensus_states, port_to_module_map>>

BuildResponse ==
  /\ query.pc = "read"
  /\ resp = NoReply
  /\ resp' = WithHeight(query.reply, height)
  /\ query' = [query EXCEPT !.pc = "done"]
  /\ UNCHANGED <<store, clientVars, packetHist, height, consensus_states, port_to_module_map>>

(***************************************************************************)
(* A scanning query in two steps: the prefix scan lists the paths          *)
(* (ReadData keeps them as the body of the reply in progress), and the     *)
(* loop then fetches the value of each path.  PacketCommitments (line      *)
(* 582), ClientStates (line 170), Connections (line 325) and Channels      *)
(* (line 448) call unwrap() or expect() on the fetched Option.             *)
(***************************************************************************)
ScannedPaths(op, req, paths) == Reply(op, req, "ok", "Ok", paths)

FetchValues ==
  /\ query.pc = "read"
  /\ resp = NoReply
  /\ LET scan == query.reply
         kept == {q \in scan.body :
                    scan.op = "PacketCommitments" => AdapterGet(store, q) # <<<<>>>>}
         reply == Reply(scan.op, scan.req, "ok", "Ok",
                        {[path |-> q, value |-> AdapterGet(store, q)[1]] : q \in kept})
     IN resp' = IF \E q \in scan.body : AdapterGet(store, q) = <<>>
                THEN Reply(scan.op, scan.req, "ok", "Panic", {})
                ELSE IF scan.op \in {"PacketCommitments", "Channels"}
                THEN WithHeight(reply, height)
                ELSE reply
  /\ query' = [query EXCEPT !.pc = "done"]
  /\ UNCHANGED <<store, clientVars, packetHist, height, consensus_states, port_to_module_map>>

(***************************************************************************)
(* The Connections and ConsensusStates queries, and the keeper write of a  *)
(* client's consensus state.                                               *)
(***************************************************************************)
ConsensusHeights == {MsgHeight}

StoreConsensusState(client_id, h, ok) ==
  /\ resp = NoReply
  /\ store' = IF ok THEN AdapterSet(store, ClientConsensusStatePath(client_id, h),
                                    <<"consensus_state", client_id>>)
              ELSE store
  /\ resp' = KeeperReply("store_consensus_state", <<client_id, h>>, ok)
  /\ UNCHANGED <<packetHist, clientVars>>

\* lines 304-337: the response carries no height.
ConnectionsReply(st, rd) ==
  IF rd = "scan_err" THEN Reply("Connections", <<>>, rd, "Internal", {})
  ELSE LET connection_paths == ScanPaths(st, <<"connections">>, rd)
       IN IF \E q \in connection_paths : DecodePath(q).kind # "Connections"
          THEN Reply("Connections", <<>>, rd, "Panic", {})
          ELSE IF rd = "get_err" /\ connection_paths # {}
          THEN Reply("Connections", <<>>, rd, "DataLoss", {})
          ELSE Reply("Connections", <<>>, rd, "Ok",
                     {[id |-> DecodePath(q).connection_id,
                       connection_end |-> AdapterGet(st, q)[1]] : q \in connection_paths})

Connections(rd) ==
  /\ resp = NoReply
  /\ resp' = ConnectionsReply(store, rd)
  /\ UNCHANGED <<store, packetHist, clientVars, nodeVars>>

\* lines 195-227: the prefix is built from the request's client_id as given.
ConsensusStatesReply(st, client_id, rd) ==
  IF ~ValidClientId(client_id)
  THEN Reply("ConsensusStates", <<client_id>>, rd, "InvalidArgument", {})
  ELSE IF rd = "scan_err"
  THEN Reply("ConsensusStates", <<client_id>>, rd, "Internal", {})
  ELSE LET keys == ScanPaths(st, <<"clients", client_id, "consensusStates">>, rd)
       IN IF \E q \in keys : DecodePath(q).kind # "ClientConsensusState"
          THEN Reply("ConsensusStates", <<client_id>>, rd, "Panic", {})
          ELSE IF rd = "get_err" /\ keys # {}
          THEN Reply("ConsensusStates", <<client_id>>, rd, "DataLoss", {})
          ELSE Reply("ConsensusStates", <<client_id>>, rd, "Ok",
                     {[height |-> DecodePath(q).height,
                       consensus_state |-> AdapterGet(st, q)] : q \in keys})

ConsensusStates(client_id, rd) ==
  /\ resp = NoReply
  /\ ValidClientId(client_id) \/ rd = "ok"
  /\ resp' = ConsensusStatesReply(store, client_id, rd)
  /\ UNCHANGED <<store, packetHist, clientVars, nodeVars>>

(***************************************************************************)
(* ChannelKeeper for IbcImpl: the next sequence numbers of a channel.      *)
(* Each of the three keepers hands the sequence it is given to the         *)
(* adapter; none reads the stored value.                                   *)
(***************************************************************************)
Directions == {"Send", "Recv", "Ack"}
NextSeqValues == 1..(MaxSeq + 2)
SeqChannel == <<"transfer", "channel-0">>
NextSequencePath(dir, p, c) == <<"nextSequence" \o dir, "ports", p, "channels", c>>

StoreNextSequence(dir, port_channel, seq, ok) ==
  /\ resp = NoReply
  /\ store' = IF ok
              THEN AdapterSet(store, NextSequencePath(dir, port_channel[1], port_channel[2]), seq)
              ELSE store
  /\ resp' = KeeperReply("store_next_sequence_" \o dir, <<port_channel, seq>>, ok)
  /\ UNCHANGED <<packetHist, clientVars>>

StoreNextSequenceSend(port_channel, seq, ok) == StoreNextSequence("Send", port_channel, seq, ok)
StoreNextSequenceRecv(port_channel, seq, ok) == StoreNextSequence("Recv", port_channel, seq, ok)
StoreNextSequenceAck(port_channel, seq, ok) == StoreNextSequence("Ack", port_channel, seq, ok)

(***************************************************************************)
(* The canonical string keys of the Path Model.  A key is the sequence of  *)
(* its tokens: identifiers, the separators "/" and "-", and the decimal    *)
(* digits of the numbers.  IbcPath is the record DecodePath returns.       *)
(***************************************************************************)
PathNumbers == 0..MaxPathNumber
DigitChars == <<"0", "1", "2", "3", "4", "5", "6", "7", "8", "9">>
DigitValue(ch) == CHOOSE d \in 0..9 : DigitChars[d + 1] = ch

\* Mutant: only the last digit of a number is written.
ToDigits_Truncates(n) == <<DigitChars[(n % 10) + 1]>>

RECURSIVE ToDigits(_)
ToDigits(n) ==
  IF n < 10 THEN <<DigitChars[n + 1]>>
  ELSE Append(ToDigits(n \div 10), DigitChars[(n % 10) + 1])

IsNumber(seg) ==
  /\ seg # <<>>
  /\ \A i \in 1..Len(seg) : \E d \in 1..10 : DigitChars[d] = seg[i]

RECURSIVE FromDigits(_)
FromDigits(seg) ==
  IF seg = <<>> THEN 0
  ELSE 10 * FromDigits(SubSeq(seg, 1, Len(seg) - 1)) + DigitValue(seg[Len(seg)])

RECURSIVE SplitOn(_, _)
SplitOn(key, sep) ==
  IF key = <<>> THEN <<<<>>>>
  ELSE LET rest == SplitOn(Tail(key), sep)
       IN IF Head(key) = sep THEN <<<<>>>> \o rest
          ELSE <<<<Head(key)>> \o rest[1]>> \o Tail(rest)

RECURSIVE JoinWith(_, _)
JoinWith(segs, sep) ==
  IF Len(segs) = 1 THEN segs[1]
  ELSE segs[1] \o <<sep>> \o JoinWith(Tail(segs), sep)

PacketPathHead(kind) ==
  IF kind = "Commitments" THEN "commitments"
  ELSE IF kind = "Acks" THEN "acks"
  ELSE "receipts"

ClientIdToString(id) == <<id[1], "-">> \o ToDigits(id[2])
HeightToString(h) == ToDigits(h[1]) \o <<"-">> \o ToDigits(h[2])

\* Display for IbcPath.
EncodePath(t) ==
  JoinWith(
    IF t.kind \in {"Commitments", "Acks", "Receipts"}
    THEN <<<<PacketPathHead(t.kind)>>, <<"ports">>, <<t.port_id>>, <<"channels">>,
           <<t.channel_id>>, <<"sequences">>, ToDigits(t.sequence)>>
    ELSE IF t.kind = "ClientType"
    THEN <<<<"clients">>, ClientIdToString(t.client_id), <<"clientType">>>>
    ELSE IF t.kind = "ClientState"
    THEN <<<<"clients">>, ClientIdToString(t.client_id), <<"clientState">>>>
    ELSE IF t.kind = "ClientConnections"
    THEN <<<<"clients">>, ClientIdToString(t.client_id), <<"connections">>>>
    ELSE IF t.kind = "ClientConsensusState"
    THEN <<<<"clients">>, ClientIdToString(t.client_id), <<"consensusStates">>,
           HeightToString(t.height)>>
    ELSE IF t.kind = "Connections"
    THEN <<<<"connections">>, <<t.connection_id>>>>
    ELSE IF t.kind = "ChannelEnds"
    THEN <<<<"channelEnds">>, <<"ports">>, <<t.port_id>>, <<"channels">>, <<t.channel_id>>>>
    ELSE <<<<t.kind>>, <<"ports">>, <<t.port_id>>, <<"channels">>, <<t.channel_id>>>>,
    "/")

IsClientIdString(seg) == Len(seg) >= 3 /\ seg[2] = "-" /\ IsNumber(SubSeq(seg, 3, Len(seg)))
ParseClientId(seg) == <<seg[1], FromDigits(SubSeq(seg, 3, Len(seg)))>>
IsHeightString(seg) ==
  LET parts == SplitOn(seg, "-")
  IN Len(parts) = 2 /\ IsNumber(parts[1]) /\ IsNumber(parts[2])
ParseHeight(seg) ==
  LET parts == SplitOn(seg, "-") IN <<FromDigits(parts[1]), FromDigits(parts[2])>>

\* FromStr for IbcPath: the key is split at "/" and matched against the
\* shapes of the kinds.
ParsePath(key) ==
  LET segs == SplitOn(key, "/")
      n == Len(segs)
      Word(i) == Len(segs[i]) = 1
      Is(i, w) == segs[i] = <<w>>
  IN IF /\ n = 7
        /\ Is(1, "commitments") \/ Is(1, "acks") \/ Is(1, "receipts")
        /\ Is(2, "ports") /\ Word(3) /\ Is(4, "channels") /\ Word(5)
        /\ Is(6, "sequences") /\ IsNumber(segs[7])
     THEN [kind |-> PacketPathKind(segs[1][1]), port_id |-> segs[3][1],
           channel_id |-> segs[5][1], sequence |-> FromDigits(segs[7])]
     ELSE IF n = 3 /\ Is(1, "clients") /\ IsClientIdString(segs[2]) /\ Is(3, "clientType")
     THEN [kind |-> "ClientType", client_id |-> ParseClientId(segs[2])]
     ELSE IF n = 3 /\ Is(1, "clients") /\ IsClientIdString(segs[2]) /\ Is(3, "clientState")
     THEN [kind |-> "ClientState", client_id |-> ParseClientId(segs[2])]
     ELSE IF n = 3 /\ Is(1, "clients") /\ IsClientIdString(segs[2]) /\ Is(3, "connections")
     THEN [kind |-> "ClientConnections", client_id |-> ParseClientId(segs[2])]
     ELSE IF /\ n = 4 /\ Is(1, "clients") /\ IsClientIdString(segs[2])
             /\ Is(3, "consensusStates") /\ IsHeightString(segs[4])
     THEN [kind |-> "ClientConsensusState", client_id |-> ParseClientId(segs[2]),
           height |-> ParseHeight(segs[4])]
     ELSE IF n = 2 /\ Is(1, "connections") /\ Word(2)
     THEN [kind |-> "Connections", connection_id |-> segs[2][1]]
     ELSE IF /\ n = 5 /\ Is(2, "ports") /\ Word(3) /\ Is(4, "channels") /\ Word(5)
             /\ Is(1, "channelEnds")
     THEN [kind |-> "ChannelEnds", port_id |-> segs[3][1], channel_id |-> segs[5][1]]
     ELSE IF /\ n = 5 /\ Is(2, "ports") /\ Word(3) /\ Is(4, "channels") /\ Word(5)
             /\ \/ Is(1, "nextSequenceSend") \/ Is(1, "nextSequenceRecv")
                \/ Is(1, "nextSequenceAck")
     THEN [kind |-> segs[1][1], port_id |-> segs[3][1], channel_id |-> segs[5][1]]
     ELSE [kind |-> "Invalid"]

\* The Path of the store for the identifiers of an IbcPath.
PathOf(t) ==
  IF t.kind = "Commitments" THEN CommitmentsPath(t.port_id, t.channel_id, t.sequence)
  ELSE IF t.kind = "Acks" THEN AcksPath(t.port_id, t.channel_id, t.sequence)
  ELSE IF t.kind = "Receipts" THEN ReceiptsPath(t.port_id, t.channel_id, t.sequence)
  ELSE IF t.kind = "ClientType" THEN ClientTypePath(t.client_id)
  ELSE IF t.kind = "ClientState" THEN ClientStatePath(t.client_id)
  ELSE IF t.kind = "ClientConnections" THEN ClientConnectionsPath(t.client_id)
  ELSE IF t.kind = "ClientConsensusState"
  THEN ClientConsensusStatePath(t.client_id, t.height)
  ELSE IF t.kind = "Connections" THEN ConnectionsPath(t.connection_id)
  ELSE IF t.kind = "ChannelEnds" THEN ChannelEndsPath(t.port_id, t.channel_id)
  ELSE <<t.kind, "ports", t.port_id, "channels", t.channel_id>>

PathClientIds == {<<ty, n>> : ty \in ClientTypes, n \in PathNumbers}
PathHeights == {<<rev, h>> : rev \in {CHAIN_REVISION_NUMBER, MaxPathNumber}, h \in PathNumbers}
IbcPaths ==
  [kind : {"Commitments", "Acks", "Receipts"}, port_id : Ports, channel_id : Channels,
   sequence : PathNumbers]
  \cup [kind : {"ClientType", "ClientState", "ClientConnections"}, client_id : PathClientIds]
  \cup [kind : {"ClientConsensusState"}, client_id : PathClientIds, height : PathHeights]
  \cup [kind : {"Connections"}, connection_id : {"connection-0", "connection-1"}]
  \cup [kind : {"ChannelEnds", "nextSequenceSend", "nextSequenceRecv", "nextSequenceAck"},
         port_id : Ports, channel_id : Channels]

\* A path is built from identifiers, written as a key, and the key is
\* decoded, as a scan does with every key it enumerates.
PathRoundTrip(t) ==
  /\ resp = NoReply
  /\ resp' = Reply("path_round_trip", t, "ok", "Ok",
                   [key |-> EncodePath(t), decoded |-> ParsePath(EncodePath(t)),
                    path |-> PathOf(t), typed |-> DecodePath(PathOf(t))])
  /\ UNCHANGED <<store, packetHist, clientVars, nodeVars>>

(***************************************************************************)
(* The surrounding node: it commits blocks, which advances the store's     *)
(* current height, and it seeds the host consensus-state cache of IbcImpl  *)
(* with this chain's own consensus states.                                 *)
(***************************************************************************)
RevisionHeights == HostOldestHeight..(MaxHeight + 1)
\* ibc::Height: <<revision_number, revision_height>>.
Heights == {<<rev, h>> : rev \in {CHAIN_REVISION_NUMBER, CHAIN_REVISION_NUMBER + 1},
                         h \in RevisionHeights}
RevisionNumber(h) == h[1]
RevisionHeight(h) == h[2]
Increment(h) == <<h[1], h[2] + 1>>
HostState(n) == <<"host_consensus_state", n>>

AdvanceHeight ==
  /\ height < MaxHeight
  /\ height' = height + 1
  /\ UNCHANGED <<store, clientVars, packetHist, resp, consensus_states,
                 port_to_module_map, query>>

SeedHostConsensusState(n) ==
  /\ n \notin DOMAIN consensus_states
  /\ consensus_states' = MapSet(consensus_states, n, HostState(n))
  /\ UNCHANGED <<store, clientVars, packetHist, resp, height, port_to_module_map, query>>

(***************************************************************************)
(* ClientReader and PortReader for IbcImpl: the reads of the host          *)
(* consensus-state cache and of the routing table.                         *)
(***************************************************************************)
\* lines 131-135: consensus_states.get(&height.revision_height()).
HostConsensusStateResult(cache, h) ==
  IF RevisionHeight(h) \in DOMAIN cache
  THEN [status |-> "Ok", body |-> cache[RevisionHeight(h)]]
  ELSE [status |-> "MissingLocalConsensusState", body |-> h]

\* lines 125-128: Height::new(0, adapter.get_current_height()).
HostHeight(current_height) == <<0, current_height>>

HostConsensusState(h) ==
  /\ resp = NoReply
  /\ LET res == HostConsensusStateResult(consensus_states, h)
     IN resp' = Reply("host_consensus_state", h, "ok", res.status, res.body)
  /\ UNCHANGED <<store, packetHist, clientVars, nodeVars>>

\* Mutant: the lookup is made at the current height.
PendingHostConsensusState_AtCurrent ==
  /\ resp = NoReply
  /\ LET pending_height == HostHeight(height)
         res == HostConsensusStateResult(consensus_states, pending_height)
     IN resp' = Reply("pending_host_consensus_state", <<>>, "ok", res.status, res.body)
  /\ UNCHANGED <<store, packetHist, clientVars, nodeVars>>

PendingHostConsensusState ==
  /\ resp = NoReply
  /\ LET pending_height == Increment(HostHeight(height))
         res == HostConsensusStateResult(consensus_states, pending_height)
     IN resp' = Reply("pending_host_consensus_state", <<>>, "ok", res.status, res.body)
  /\ UNCHANGED <<store, packetHist, clientVars, nodeVars>>

\* Mutant: an unregistered port is routed to the module of "transfer".
LookupModuleByPortResult_Defaults(map, port_id) ==
  IF port_id \in DOMAIN map THEN [status |-> "Ok", body |-> map[port_id]]
  ELSE [status |-> "Ok", body |-> map["transfer"]]

\* lines 292-297: port_to_module_map.get(port_id).ok_or_else(unknown_port).
LookupModuleByPortResult(map, port_id) ==
  IF port_id \in DOMAIN map THEN [status |-> "Ok", body |-> map[port_id]]
  ELSE [status |-> "UnknownPort", body |-> port_id]

LookupModuleByPort(port_id) ==
  /\ resp = NoReply
  /\ LET res == LookupModuleByPortResult(port_to_module_map, port_id)
     IN resp' = Reply("lookup_module_by_port", port_id, "ok", res.status, res.body)
  /\ UNCHANGED <<store, packetHist, clientVars, nodeVars>>

(***************************************************************************)
(* ConnectionKeeper and ChannelKeeper for IbcImpl: the counters.  They are *)
(* fields of IbcImpl; increase_*_counter adds 1 to the field and calls no  *)
(* adapter method.                                                         *)
(***************************************************************************)
IncreaseConnectionCounter ==
  /\ conn_counter' = conn_counter + 1
  /\ UNCHANGED <<store, client_counter, client_processed_times, client_processed_heights,
                 ctx_lock, cc_pc, cc_msg, cc_id, created, channel_counter, cc_output,
                 cc_resp, packetHist, resp>>

IncreaseChannelCounter ==
  /\ channel_counter' = channel_counter + 1
  /\ UNCHANGED <<store, client_counter, client_processed_times, client_processed_heights,
                 ctx_lock, cc_pc, cc_msg, cc_id, created, conn_counter, cc_output,
                 cc_resp, packetHist, resp>>

(***************************************************************************)
(* Node restart.  The process ends and the Host Context is built again     *)
(* over the same commitment store: the store keeps its content, the fields *)
(* of IbcImpl are lost, the requests in flight are cut off and each        *)
(* counter resumes from the value persisted for it.  No operation of       *)
(* IbcImpl writes a counter through the adapter, so the value persisted    *)
(* for a counter is the one it was created with.                           *)
(***************************************************************************)
InFlight == {"decoded", "locked", "type_stored", "state_stored", "consensus_stored"}
Aborted == Response("Aborted", <<>>)
PersistedCounter == 0

Restart ==
  /\ client_counter' = PersistedCounter
  /\ conn_counter' = PersistedCounter
  /\ channel_counter' = PersistedCounter
  /\ client_processed_times' = {}
  /\ client_processed_heights' = {}
  /\ ctx_lock' = 0
  /\ cc_pc' = [r \in Requests |-> IF cc_pc[r] \in InFlight THEN "aborted" ELSE cc_pc[r]]
  /\ cc_resp' = [r \in Requests |-> IF cc_pc[r] \in InFlight THEN Aborted ELSE cc_resp[r]]
  /\ cc_output' = [r \in Requests |-> <<>>]
  /\ resp' = NoReply
  /\ consensus_states' = EmptyStore
  /\ query' = NoQuery
  /\ UNCHANGED <<store, cc_msg, cc_id, created, packetHist, height, port_to_module_map>>

(***************************************************************************)
(* Specifications.  SpecCommit, SpecReceipt and SpecAck run the keeper     *)
(* operations of one family of paths with the queries that read it;        *)
(* SpecClient runs concurrent create_client requests; SpecKeeper runs the  *)
(* packet writes of ChannelKeeper together with create_client, at most     *)
(* MaxOps calls of them.                                                   *)
(***************************************************************************)
NextCommit ==
  \/ \E key \in Keys, b \in Bytes, ok \in BOOLEAN :
       StorePacketCommitment(key, b, ok) /\ UNCHANGED <<nops, scanHist, nodeVars>>
  \/ \E key \in Keys, ok \in BOOLEAN :
       DeletePacketCommitment(key, ok) /\ UNCHANGED <<nops, scanHist, nodeVars>>
  \/ \E p \in PortStrings, c \in ChannelStrings, rd \in ReadModes :
       PacketCommitments(p, c, rd) /\ UNCHANGED <<nops, scanHist, nodeVars>>
  \/ \E p \in PortStrings, c \in ChannelStrings, q \in SeqLists, rd \in {"ok", "get_err"} :
       UnreceivedAcks(p, c, q, rd) /\ UNCHANGED <<nops, scanHist, nodeVars>>
  \/ Deliver

SpecCommit == Init /\ [][NextCommit]_vars

NextReceipt ==
  \/ \E key \in Keys, ok \in BOOLEAN :
       StorePacketReceipt(key, ok) /\ UNCHANGED <<nops, scanHist, nodeVars>>
  \/ \E p \in PortStrings, c \in ChannelStrings, q \in SeqLists, rd \in {"ok", "get_err"} :
       UnreceivedPackets(p, c, q, rd) /\ UNCHANGED <<nops, scanHist, nodeVars>>
  \/ Deliver

SpecReceipt == Init /\ [][NextReceipt]_vars

NextAck ==
  \/ \E key \in Keys, b \in Bytes, ok \in BOOLEAN :
       StorePacketAcknowledgement(key, b, ok) /\ UNCHANGED <<nops, scanHist, nodeVars>>
  \/ \E key \in Keys, ok \in BOOLEAN :
       DeletePacketAcknowledgement(key, ok) /\ UNCHANGED <<nops, scanHist, nodeVars>>
  \/ \E p \in PortStrings, c \in ChannelStrings, rd \in ReadModes :
       PacketAcknowledgements(p, c, rd) /\ UNCHANGED <<nops, scanHist, nodeVars>>
  \/ Deliver

SpecAck == Init /\ [][NextAck]_vars

NextClient ==
  \/ \E r \in Requests, msg \in Messages : CcCall(r, msg) /\ UNCHANGED <<nops, scanHist, nodeVars>>
  \/ \E r \in Requests : CcLock(r) /\ UNCHANGED <<nops, scanHist, nodeVars>>
  \/ \E r \in Requests, ok \in BOOLEAN : CcStoreClientType(r, ok) /\ UNCHANGED <<nops, scanHist, nodeVars>>
  \/ \E r \in Requests, ok \in BOOLEAN : CcStoreClientState(r, ok) /\ UNCHANGED <<nops, scanHist, nodeVars>>
  \/ \E r \in Requests, ok \in BOOLEAN : CcStoreConsensusState(r, ok) /\ UNCHANGED <<nops, scanHist, nodeVars>>
  \/ \E r \in Requests : CcFinish(r) /\ UNCHANGED <<nops, scanHist, nodeVars>>

SpecClient == Init /\ [][NextClient]_vars

Budget == nops < MaxOps /\ nops' = nops + 1 /\ UNCHANGED scanHist

NextKeeper ==
  \/ \E key \in Keys, b \in Bytes, ok \in BOOLEAN :
       Budget /\ StorePacketCommitment(key, b, ok) /\ UNCHANGED nodeVars
  \/ \E key \in Keys, ok \in BOOLEAN :
       Budget /\ DeletePacketCommitment(key, ok) /\ UNCHANGED nodeVars
  \/ \E key \in Keys, ok \in BOOLEAN :
       Budget /\ StorePacketReceipt(key, ok) /\ UNCHANGED nodeVars
  \/ \E key \in Keys, b \in Bytes, ok \in BOOLEAN :
       Budget /\ StorePacketAcknowledgement(key, b, ok) /\ UNCHANGED nodeVars
  \/ \E key \in Keys, ok \in BOOLEAN :
       Budget /\ DeletePacketAcknowledgement(key, ok) /\ UNCHANGED nodeVars
  \/ \E r \in Requests, msg \in Messages : Budget /\ CcCall(r, msg) /\ UNCHANGED nodeVars
  \/ \E r \in Requests : CcLock(r) /\ UNCHANGED <<nops, scanHist, nodeVars>>
  \/ \E r \in Requests, ok \in BOOLEAN : CcStoreClientType(r, ok) /\ UNCHANGED <<nops, scanHist, nodeVars>>
  \/ \E r \in Requests, ok \in BOOLEAN : CcStoreClientState(r, ok) /\ UNCHANGED <<nops, scanHist, nodeVars>>
  \/ \E r \in Requests, ok \in BOOLEAN : CcStoreConsensusState(r, ok) /\ UNCHANGED <<nops, scanHist, nodeVars>>
  \/ \E r \in Requests : CcFinish(r) /\ UNCHANGED <<nops, scanHist, nodeVars>>
  \/ Deliver

SpecKeeper == Init /\ [][NextKeeper]_vars

(***************************************************************************)
(* SpecHost: the Host Context over its life: create_client requests, the   *)
(* connection and channel counters, and restarts of the node, at most      *)
(* MaxOps calls and restarts in all.                                       *)
(***************************************************************************)
NextHost ==
  \/ \E r \in Requests, msg \in Messages : Budget /\ CcCall(r, msg) /\ UNCHANGED nodeVars
  \/ \E r \in Requests : CcLock(r) /\ UNCHANGED <<nops, scanHist, nodeVars>>
  \/ \E r \in Requests, ok \in BOOLEAN : CcStoreClientType(r, ok) /\ UNCHANGED <<nops, scanHist, nodeVars>>
  \/ \E r \in Requests, ok \in BOOLEAN : CcStoreClientState(r, ok) /\ UNCHANGED <<nops, scanHist, nodeVars>>
  \/ \E r \in Requests, ok \in BOOLEAN :
       CcStoreConsensusState(r, ok) /\ UNCHANGED <<nops, scanHist, nodeVars>>
  \/ \E r \in Requests : CcFinish(r) /\ UNCHANGED <<nops, scanHist, nodeVars>>
  \/ Budget /\ IncreaseConnectionCounter /\ UNCHANGED nodeVars
  \/ Budget /\ IncreaseChannelCounter /\ UNCHANGED nodeVars
  \/ Budget /\ Restart
  \/ Budget /\ UpdateClient /\ UNCHANGED nodeVars
  \/ Budget /\ UpgradeClient /\ UNCHANGED nodeVars
  \/ Budget /\ SubmitMisbehaviour /\ UNCHANGED nodeVars
  \/ Deliver

SpecHost == Init /\ [][NextHost]_vars

(***************************************************************************)
(* SpecConn: the connection writes with the ClientConnections query.       *)
(***************************************************************************)
NextConn ==
  \/ \E id \in ConnectionIds, e \in ConnectionEnds, ok \in BOOLEAN :
       StoreConnection(id, e, ok) /\ UNCHANGED <<nops, scanHist, nodeVars>>
  \/ \E id \in ConnectionIds, ok \in BOOLEAN :
       StoreConnectionToClient(id, IndexedClient, ok) /\ UNCHANGED <<nops, scanHist, nodeVars>>
  \/ \E cl \in ClientIdStrings, rd \in {"ok", "get_err"} :
       ClientConnections(cl, rd) /\ UNCHANGED <<nops, scanHist, nodeVars>>
  \/ Deliver

SpecConn == Init /\ [][NextConn]_vars

(***************************************************************************)
(* SpecSeq: the next-sequence writes of one channel.                       *)
(***************************************************************************)
NextSeq ==
  \/ \E seq \in NextSeqValues, ok \in BOOLEAN :
       StoreNextSequenceSend(SeqChannel, seq, ok) /\ UNCHANGED <<nops, scanHist, nodeVars>>
  \/ \E seq \in NextSeqValues, ok \in BOOLEAN :
       StoreNextSequenceRecv(SeqChannel, seq, ok) /\ UNCHANGED <<nops, scanHist, nodeVars>>
  \/ \E seq \in NextSeqValues, ok \in BOOLEAN :
       StoreNextSequenceAck(SeqChannel, seq, ok) /\ UNCHANGED <<nops, scanHist, nodeVars>>
  \/ Deliver

SpecSeq == Init /\ [][NextSeq]_vars

(***************************************************************************)
(* SpecCache: the reads of the volatile parts of the Host Context, while   *)
(* the node commits blocks and seeds the cache, and a packet is received.  *)
(***************************************************************************)
NextCache ==
  \/ AdvanceHeight /\ UNCHANGED <<nops, scanHist>>
  \/ \E n \in RevisionHeights : SeedHostConsensusState(n) /\ UNCHANGED <<nops, scanHist>>
  \/ \E h \in Heights : HostConsensusState(h) /\ UNCHANGED <<nops, scanHist>>
  \/ PendingHostConsensusState /\ UNCHANGED <<nops, scanHist>>
  \/ \E p \in Ports : LookupModuleByPort(p) /\ UNCHANGED <<nops, scanHist>>
  \/ \E key \in Keys, ok \in BOOLEAN :
       Budget /\ StorePacketReceipt(key, ok) /\ UNCHANGED nodeVars
  \/ Deliver

SpecCache == Init /\ [][NextCache]_vars

(***************************************************************************)
(* SpecChan: channel ends, connection ends and consensus states are        *)
(* written while the node commits blocks, and the scanning queries over    *)
(* them are answered.                                                      *)
(***************************************************************************)
NextChan ==
  \/ \E pc \in ChannelKeys, e \in ChannelEnds, ok \in BOOLEAN :
       StoreChannel(pc, e, ok) /\ UNCHANGED <<nops, scanHist, nodeVars>>
  \/ \E ok \in BOOLEAN :
       StoreConnection("connection-0", [state |-> "Open"], ok)
         /\ UNCHANGED <<nops, scanHist, nodeVars>>
  \/ \E h \in ConsensusHeights, ok \in BOOLEAN :
       StoreConsensusState(IndexedClient, h, ok) /\ UNCHANGED <<nops, scanHist, nodeVars>>
  \/ AdvanceHeight /\ UNCHANGED <<nops, scanHist>>
  \/ \E rd \in ScanFaults : ChannelsQuery(rd) /\ UNCHANGED <<nops, scanHist>>
  \/ \E c \in ConnectionIdStrings, rd \in ScanFaults :
       ConnectionChannels(c, rd) /\ UNCHANGED <<nops, scanHist>>
  \/ \E rd \in ScanFaults : Connections(rd) /\ UNCHANGED <<nops, scanHist>>
  \/ \E id \in ClientIdStrings, rd \in ScanFaults :
       ConsensusStates(id, rd) /\ UNCHANGED <<nops, scanHist>>
  \/ Deliver

SpecChan == Init /\ [][NextChan]_vars

(***************************************************************************)
(* SpecHeight: the six queries that report a height, each in two steps,    *)
(* while blocks are committed and a packet and a channel end are written.  *)
(***************************************************************************)
HeightKey == <<"transfer", "channel-0", 1>>

NextHeight ==
  \/ AdvanceHeight /\ UNCHANGED <<nops, scanHist>>
  \/ StoreChannel(SeqChannel, [connection_hops |-> <<"connection-0">>], TRUE)
       /\ UNCHANGED <<nops, scanHist, nodeVars>>
  \/ StorePacketCommitment(HeightKey, <<1>>, TRUE) /\ UNCHANGED <<nops, scanHist, nodeVars>>
  \/ StorePacketReceipt(HeightKey, TRUE) /\ UNCHANGED <<nops, scanHist, nodeVars>>
  \/ StorePacketAcknowledgement(HeightKey, <<1>>, TRUE)
       /\ UNCHANGED <<nops, scanHist, nodeVars>>
  \/ \E rd \in ScanFaults : ReadData(ChannelsReply(store, rd)) /\ UNCHANGED <<nops, scanHist>>
  \/ \E c \in ConnectionIdStrings :
       ReadData(ConnectionChannelsReply(store, c, "ok")) /\ UNCHANGED <<nops, scanHist>>
  \/ \E rd \in ReadModes :
       ReadData(PacketCommitmentsReply(store, "transfer", "channel-0", rd))
         /\ UNCHANGED <<nops, scanHist>>
  \/ \E rd \in ReadModes :
       ReadData(PacketAcknowledgementsReply(store, "transfer", "channel-0", rd))
         /\ UNCHANGED <<nops, scanHist>>
  \/ \E q \in SeqLists :
       ReadData(UnreceivedPacketsReply(store, "transfer", "channel-0", q, "ok"))
         /\ UNCHANGED <<nops, scanHist>>
  \/ \E q \in SeqLists :
       ReadData(UnreceivedAcksReply(store, "transfer", "channel-0", q, "ok"))
         /\ UNCHANGED <<nops, scanHist>>
  \/ BuildResponse /\ UNCHANGED <<nops, scanHist>>
  \/ Deliver

SpecHeight == Init /\ [][NextHeight]_vars

(***************************************************************************)
(* SpecQuery: every implemented query, over a store that the keepers fill  *)
(* with one entity of each kind.                                           *)
(***************************************************************************)
NextQuery ==
  \/ AdvanceHeight /\ UNCHANGED <<nops, scanHist>>
  \/ \E e \in ChannelEnds :
       StoreChannel(SeqChannel, e, TRUE) /\ UNCHANGED <<nops, scanHist, nodeVars>>
  \/ StoreConnection("connection-0", [state |-> "Open"], TRUE)
       /\ UNCHANGED <<nops, scanHist, nodeVars>>
  \/ StoreConnectionToClient("connection-0", IndexedClient, TRUE)
       /\ UNCHANGED <<nops, scanHist, nodeVars>>
  \/ StoreClientState(IndexedClient, TRUE) /\ UNCHANGED <<nops, scanHist, nodeVars>>
  \/ StoreConsensusState(IndexedClient, MsgHeight, TRUE)
       /\ UNCHANGED <<nops, scanHist, nodeVars>>
  \/ StorePacketCommitment(HeightKey, <<1>>, TRUE) /\ UNCHANGED <<nops, scanHist, nodeVars>>
  \/ StorePacketReceipt(HeightKey, TRUE) /\ UNCHANGED <<nops, scanHist, nodeVars>>
  \/ StorePacketAcknowledgement(HeightKey, <<1>>, TRUE)
       /\ UNCHANGED <<nops, scanHist, nodeVars>>
  \/ \E rd \in ScanFaults : ClientStates(rd) /\ UNCHANGED <<nops, scanHist>>
  \/ \E id \in ClientIdStrings, rd \in ScanFaults :
       ConsensusStates(id, rd) /\ UNCHANGED <<nops, scanHist>>
  \/ \E c \in ConnectionIdStrings, rd \in {"ok", "get_err"} :
       Connection(c, rd) /\ UNCHANGED <<nops, scanHist>>
  \/ \E rd \in ScanFaults : Connections(rd) /\ UNCHANGED <<nops, scanHist>>
  \/ \E id \in ClientIdStrings, rd \in {"ok", "get_err"} :
       ClientConnections(id, rd) /\ UNCHANGED <<nops, scanHist, nodeVars>>
  \/ \E p \in PortStrings, rd \in {"ok", "get_err"} :
       Channel(p, "channel-0", rd) /\ UNCHANGED <<nops, scanHist>>
  \/ \E rd \in ScanFaults : ChannelsQuery(rd) /\ UNCHANGED <<nops, scanHist>>
  \/ \E c \in ConnectionIdStrings, rd \in ScanFaults :
       ConnectionChannels(c, rd) /\ UNCHANGED <<nops, scanHist>>
  \/ \E p \in PortStrings, rd \in ReadModes :
       PacketCommitments(p, "channel-0", rd) /\ UNCHANGED <<nops, scanHist, nodeVars>>
  \/ \E p \in PortStrings, rd \in ReadModes :
       PacketAcknowledgements(p, "channel-0", rd) /\ UNCHANGED <<nops, scanHist, nodeVars>>
  \/ \E p \in PortStrings, q \in SeqLists, rd \in {"ok", "get_err"} :
       UnreceivedPackets(p, "channel-0", q, rd) /\ UNCHANGED <<nops, scanHist, nodeVars>>
  \/ \E p \in PortStrings, q \in SeqLists, rd \in {"ok", "get_err"} :
       UnreceivedAcks(p, "channel-0", q, rd) /\ UNCHANGED <<nops, scanHist, nodeVars>>
  \/ Deliver

SpecQuery == Init /\ [][NextQuery]_vars

(***************************************************************************)
(* SpecPath: the Path Model applied to bounded sets of identifiers.        *)
(***************************************************************************)
NextPath ==
  \/ \E t \in IbcPaths : PathRoundTrip(t) /\ UNCHANGED <<nops, scanHist>>
  \/ Deliver

SpecPath == Init /\ [][NextPath]_vars

(***************************************************************************)
(* SpecRead: the records of two clients are written by the keepers and     *)
(* read back by the readers of the Host Context.                           *)
(***************************************************************************)
ReadClients == {ClientIdNew(ty, 0) : ty \in ClientTypes}
ReadHeights == {MsgHeight, Increment(MsgHeight)}

NextRead ==
  \/ \E id \in ReadClients, ok \in BOOLEAN :
       StoreClientType(id, ok) /\ UNCHANGED <<nops, scanHist, nodeVars>>
  \/ \E ok \in BOOLEAN :
       StoreClientState(IndexedClient, ok) /\ UNCHANGED <<nops, scanHist, nodeVars>>
  \/ \E h \in ReadHeights, ok \in BOOLEAN :
       StoreConsensusState(IndexedClient, h, ok) /\ UNCHANGED <<nops, scanHist, nodeVars>>
  \/ \E id \in ReadClients, rd \in {"ok", "get_err"} :
       ClientType(id, rd) /\ UNCHANGED <<nops, scanHist>>
  \/ \E id \in ReadClients, rd \in {"ok", "get_err"} :
       ClientState(id, rd) /\ UNCHANGED <<nops, scanHist>>
  \/ \E id \in ReadClients, h \in ReadHeights, rd \in {"ok", "get_err"} :
       ConsensusState(id, h, rd) /\ UNCHANGED <<nops, scanHist>>
  \/ Deliver

SpecRead == Init /\ [][NextRead]_vars

(***************************************************************************)
(* SpecCounter: the three counters of a running Host Context:              *)
(* create_client requests, the connection and channel counters and a       *)
(* connection write that may fail, at most MaxOps calls in all.            *)
(***************************************************************************)
NextCounter ==
  \/ \E r \in Requests, msg \in Messages : Budget /\ CcCall(r, msg) /\ UNCHANGED nodeVars
  \/ \E r \in Requests : CcLock(r) /\ UNCHANGED <<nops, scanHist, nodeVars>>
  \/ \E r \in Requests, ok \in BOOLEAN :
       CcStoreClientType(r, ok) /\ UNCHANGED <<nops, scanHist, nodeVars>>
  \/ \E r \in Requests, ok \in BOOLEAN :
       CcStoreClientState(r, ok) /\ UNCHANGED <<nops, scanHist, nodeVars>>
  \/ \E r \in Requests, ok \in BOOLEAN :
       CcStoreConsensusState(r, ok) /\ UNCHANGED <<nops, scanHist, nodeVars>>
  \/ \E r \in Requests : CcFinish(r) /\ UNCHANGED <<nops, scanHist, nodeVars>>
  \/ Budget /\ IncreaseConnectionCounter /\ UNCHANGED nodeVars
  \/ Budget /\ IncreaseChannelCounter /\ UNCHANGED nodeVars
  \/ \E ok \in BOOLEAN :
       Budget /\ StoreConnection("connection-0", [state |-> "Init"], ok) /\ UNCHANGED nodeVars
  \/ Deliver

SpecCounter == Init /\ [][NextCounter]_vars

(***************************************************************************)
(* SpecLock: create_client requests with the panics inside the write       *)
(* section, and the client queries, which run beside them.                 *)
(***************************************************************************)
NextLock ==
  \/ \E r \in Requests, msg \in ClientTypes :
       CcCall(r, msg) /\ UNCHANGED <<nops, scanHist, nodeVars>>
  \/ \E r \in Requests : CcLock(r) /\ UNCHANGED <<nops, scanHist, nodeVars>>
  \/ \E r \in Requests : CcLockPoisoned(r) /\ UNCHANGED <<nops, scanHist, nodeVars>>
  \/ \E r \in Requests : CcAbort(r) /\ UNCHANGED <<nops, scanHist, nodeVars>>
  \/ \E r \in Requests, ok \in BOOLEAN :
       CcStoreClientType(r, ok) /\ UNCHANGED <<nops, scanHist, nodeVars>>
  \/ \E r \in Requests, ok \in BOOLEAN :
       CcStoreClientState(r, ok) /\ UNCHANGED <<nops, scanHist, nodeVars>>
  \/ \E r \in Requests, ok \in BOOLEAN :
       CcStoreConsensusState(r, ok) /\ UNCHANGED <<nops, scanHist, nodeVars>>
  \/ \E r \in Requests : CcFinish(r) /\ UNCHANGED <<nops, scanHist, nodeVars>>
  \/ \E rd \in {"ok", "scan_err"} : ClientStates(rd) /\ UNCHANGED <<nops, scanHist>>
  \/ Deliver

SpecLock == Init /\ [][NextLock]_vars

(***************************************************************************)
(* SpecFetch: the four scanning queries that unwrap the fetched value, in  *)
(* two steps, while the keepers write and delete.                          *)
(***************************************************************************)
NextFetch ==
  \/ \E b \in Bytes :
       StorePacketCommitment(HeightKey, b, TRUE) /\ UNCHANGED <<nops, scanHist, nodeVars>>
  \/ \E ok \in BOOLEAN :
       DeletePacketCommitment(HeightKey, ok) /\ UNCHANGED <<nops, scanHist, nodeVars>>
  \/ StoreClientState(IndexedClient, TRUE) /\ UNCHANGED <<nops, scanHist, nodeVars>>
  \/ StoreConnection("connection-0", [state |-> "Init"], TRUE)
       /\ UNCHANGED <<nops, scanHist, nodeVars>>
  \/ StoreChannel(SeqChannel, [connection_hops |-> <<"connection-0">>], TRUE)
       /\ UNCHANGED <<nops, scanHist, nodeVars>>
  \/ ReadData(ScannedPaths("PacketCommitments", <<"transfer", "channel-0">>,
                           MatchingCommitmentPaths(store, "transfer", "channel-0")))
       /\ UNCHANGED <<nops, scanHist>>
  \/ ReadData(ScannedPaths("ClientStates", <<>>,
                           {q \in GetPathsByPrefix(store, <<"clients">>) :
                              DecodePath(q).kind = "ClientState"}))
       /\ UNCHANGED <<nops, scanHist>>
  \/ ReadData(ScannedPaths("Connections", <<>>, GetPathsByPrefix(store, <<"connections">>)))
       /\ UNCHANGED <<nops, scanHist>>
  \/ ReadData(ScannedPaths("Channels", <<>>,
                           GetPathsByPrefix(store, <<"channelEnds", "ports">>)))
       /\ UNCHANGED <<nops, scanHist>>
  \/ FetchValues /\ UNCHANGED <<nops, scanHist>>
  \/ Deliver

SpecFetch == Init /\ [][NextFetch]_vars

(***************************************************************************)
(* SpecScan: the commitment writes and the PacketCommitments query, with   *)
(* the last answer remembered for as long as the store does not change.    *)
(***************************************************************************)
RecordScan ==
  IF resp'.status = "Ok"
  THEN /\ last_scan' = [req |-> resp'.req, body |-> resp'.body]
       /\ rescanned' = (last_scan # NoScan /\ last_scan.req = resp'.req)
  ELSE UNCHANGED scanHist

ForgetScan ==
  IF store' = store THEN UNCHANGED scanHist
  ELSE last_scan' = NoScan /\ rescanned' = FALSE

NextScan ==
  \/ \E key \in Keys, b \in Bytes, ok \in BOOLEAN :
       StorePacketCommitment(key, b, ok) /\ ForgetScan /\ UNCHANGED <<nops, nodeVars>>
  \/ \E key \in Keys, ok \in BOOLEAN :
       DeletePacketCommitment(key, ok) /\ ForgetScan /\ UNCHANGED <<nops, nodeVars>>
  \/ \E p \in PortStrings, c \in ChannelStrings, rd \in ReadModes :
       PacketCommitments(p, c, rd) /\ RecordScan /\ UNCHANGED <<nops, nodeVars>>
  \/ Deliver

SpecScan == Init /\ [][NextScan]_vars

(***************************************************************************)
(* Properties.                                                             *)
(***************************************************************************)
InSeq(s, q) == \E i \in 1..Len(q) : q[i] = s
Done == {r \in Requests : cc_pc[r] = "done"}
AllKeys == Ports \X Channels \X Seqs
IsQueryOk(op) == resp.op = op /\ resp.status = "Ok"

\* C1: under every interleaving of create_client requests, the client ids of
\* the successful creations are pairwise distinct and the client counter has
\* grown by exactly 1 per successful creation.
C1_DistinctIdsExactCounter ==
  /\ \A r1, r2 \in Done : r1 # r2 => cc_id[r1] # cc_id[r2]
  /\ client_counter = Cardinality(Done)

C1_Witness ==
  /\ Cardinality(Done) >= 2
  /\ \E r \in Requests : cc_pc[r] = "failed"

\* C2: starting from counter 0, the n-th successful creation (n = 0, 1, ...)
\* allocates the id <client type of its request>-n, one counter for all types.
C2_NthCreationGetsTypeN ==
  \A i \in 1..Len(created) :
    created[i].client_id = <<cc_msg[created[i].req], i - 1>>

C2_Witness ==
  /\ Len(created) >= 2
  /\ cc_msg[created[1].req] # cc_msg[created[2].req]

\* C3: UnreceivedAcks returns a requested sequence whose commitment was stored
\* and not cleared since, and does not return one whose commitment was cleared
\* by delete_packet_commitment.
C3_UnreceivedAcksFollowsCommitment ==
  (IsQueryOk("UnreceivedAcks") /\ resp.rd = "ok") =>
    \A s \in Seqs :
      LET key == <<resp.req[1], resp.req[2], s>>
      IN /\ (InSeq(s, resp.req[3]) /\ key \in DOMAIN sent) => InSeq(s, resp.body)
         /\ key \in cleared => ~InSeq(s, resp.body)

C3_Witness ==
  /\ IsQueryOk("UnreceivedAcks") /\ resp.rd = "ok"
  /\ \E s \in Seqs : InSeq(s, resp.req[3]) /\ <<resp.req[1], resp.req[2], s>> \in cleared

\* C4: UnreceivedPackets returns a requested sequence for which
\* store_packet_receipt has not been called, and does not return one whose
\* receipt was recorded.
C4_UnreceivedPacketsFollowsReceipt ==
  (IsQueryOk("UnreceivedPackets") /\ resp.rd = "ok") =>
    \A s \in Seqs :
      LET key == <<resp.req[1], resp.req[2], s>>
      IN /\ (InSeq(s, resp.req[3]) /\ key \notin received) => InSeq(s, resp.body)
         /\ key \in received => ~InSeq(s, resp.body)

C4_Witness ==
  /\ IsQueryOk("UnreceivedPackets") /\ resp.rd = "ok"
  /\ \E s \in Seqs : InSeq(s, resp.req[3]) /\ <<resp.req[1], resp.req[2], s>> \in received

\* C5: in every state a commitment is present for a key iff
\* store_packet_commitment was called for it and delete_packet_commitment was
\* not called for it since.
C5_CommitmentPresentIffInFlight ==
  \A key \in AllKeys :
    CommitmentsPath(key[1], key[2], key[3]) \in DOMAIN store <=> key \in DOMAIN sent

C5_Witness ==
  /\ cleared # {}
  /\ DOMAIN sent # {}

\* C6: a receipt recorded by store_packet_receipt is present in every later
\* state, whatever keeper or service operation follows.
C6_ReceiptsAppendOnly ==
  \A key \in received : ReceiptsPath(key[1], key[2], key[3]) \in DOMAIN store

C6_Witness ==
  /\ received # {}
  /\ resp.op = "delete_packet_commitment" /\ resp.status = "Ok"
  /\ resp.req \in received

\* C7: store_packet_receipt for a key that has a receipt already returns
\* success and leaves the state as it was.
C7_StoreReceiptIdempotent ==
  [][(/\ resp'.op = "store_packet_receipt"
      /\ resp'.rd = "ok"
      /\ resp = NoReply
      /\ resp'.req \in received)
     => (/\ resp'.status = "Ok"
         /\ store' = store
         /\ received' = received
         /\ UNCHANGED <<commitHist, ackHist, clientVars>>)]_vars

C7_Witness ==
  /\ resp.op = "store_packet_receipt" /\ resp.status = "Ok"
  /\ resp.req \in rereceived

\* C8: PacketCommitments(p, c) returns exactly the {sequence, data} of the
\* commitments in flight for (p, c) whose bytes are non-empty: nothing of
\* another port or channel, nothing deleted.
C8_PacketCommitmentsExact ==
  IsQueryOk("PacketCommitments") =>
    resp.body =
      {[sequence |-> s, data |-> sent[<<resp.req[1], resp.req[2], s>>]] :
         s \in {x \in Seqs : /\ <<resp.req[1], resp.req[2], x>> \in DOMAIN sent
                             /\ sent[<<resp.req[1], resp.req[2], x>>] # <<>>}}

C8_Witness ==
  /\ IsQueryOk("PacketCommitments")
  /\ resp.body # {}
  /\ \E key \in DOMAIN sent : <<key[1], key[2]>> # resp.req /\ sent[key] # <<>>

\* C9: delete_packet_acknowledgement leaves an empty acknowledgement under the
\* key instead of removing it, and PacketAcknowledgements(p, c) returns exactly
\* the acknowledgements of (p, c) whose bytes are non-empty, so a deleted one
\* is not reported.
C9_AckDeleteIsEmptyWrite ==
  /\ (resp.op = "delete_packet_acknowledgement" /\ resp.status = "Ok") =>
       AdapterGet(store, AcksPath(resp.req[1], resp.req[2], resp.req[3])) = << <<>> >>
  /\ IsQueryOk("PacketAcknowledgements") =>
       /\ resp.body =
            {[sequence |-> s, data |-> acked[<<resp.req[1], resp.req[2], s>>]] :
               s \in {x \in Seqs : /\ <<resp.req[1], resp.req[2], x>> \in DOMAIN acked
                                   /\ acked[<<resp.req[1], resp.req[2], x>>] # <<>>}}
       /\ \A e \in resp.body : <<resp.req[1], resp.req[2], e.sequence>> \notin ack_deleted

C9_Witness ==
  /\ IsQueryOk("PacketAcknowledgements")
  /\ \E key \in ack_deleted :
       /\ <<key[1], key[2]>> = resp.req
       /\ AcksPath(key[1], key[2], key[3]) \in DOMAIN store

\* C10: PacketCommitments, PacketAcknowledgements and UnreceivedAcks treat an
\* entry whose stored bytes are empty as absent; UnreceivedAcks returns no
\* sequence whose commitment is present but empty.
C10_EmptyBytesAreAbsent ==
  /\ (IsQueryOk("PacketCommitments") \/ IsQueryOk("PacketAcknowledgements")) =>
       \A e \in resp.body : e.data # <<>>
  /\ IsQueryOk("UnreceivedAcks") =>
       \A s \in Seqs :
         InSeq(s, resp.body) =>
           AdapterGet(store, CommitmentsPath(resp.req[1], resp.req[2], s)) # << <<>> >>

\* C11: two PacketCommitments calls for the same (port, channel) with no
\* write between them return the same set of (sequence, data) pairs, and no
\* returned entry is one whose stored bytes are empty.
C11_PrefixScanIdempotent ==
  [][(/\ resp = NoReply
      /\ resp'.op = "PacketCommitments" /\ resp'.status = "Ok"
      /\ last_scan # NoScan /\ last_scan.req = resp'.req)
     => (/\ resp'.body = last_scan.body
         /\ \A e \in resp'.body \cup last_scan.body :
              AdapterGet(store, CommitmentsPath(resp'.req[1], resp'.req[2], e.sequence))
                = <<e.data>> /\ e.data # <<>>)]_vars

C11_Witness ==
  /\ rescanned
  /\ IsQueryOk("PacketCommitments")
  /\ resp.body # {}
  /\ \E key \in DOMAIN sent : sent[key] = <<>>

\* C12: over every sequence of operations, a node restart included, the
\* client, connection and channel counters never decrease, so a value a
\* counter has left is never taken again.
C12_CountersNeverDecrease ==
  [][/\ client_counter' >= client_counter
     /\ conn_counter' >= conn_counter
     /\ channel_counter' >= channel_counter]_vars

\* C13: a client id under which create_client has written a record (client
\* type, client state or consensus state) is not allocated to a later
\* creation, also when the earlier creation failed partway.
C13_ClientIdNeverReused ==
  \A r \in Requests :
    cc_pc[r] = "locked" =>
      /\ ClientTypePath(cc_id[r]) \notin DOMAIN store
      /\ ClientStatePath(cc_id[r]) \notin DOMAIN store
      /\ ClientConsensusStatePath(cc_id[r], MsgHeight) \notin DOMAIN store

\* C14: from the read of the client counter until it returns, a create_client
\* request holds the write guard alone: its event is in its output, no other
\* request reads the counter or enters the section, the counter changes only
\* when this request finishes, and it leaves the section with its three
\* records persisted and the counter incremented.
InSection(r) == cc_pc[r] \in {"locked", "type_stored", "state_stored", "consensus_stored"}

C14_ExclusiveWriteSection ==
  [][\A r \in Requests :
       InSection(r) =>
         /\ ctx_lock = r
         /\ cc_output[r] = <<CreateClientEvent(cc_id[r])>>
         /\ \A r2 \in Requests \ {r} : ~InSection(r2) /\ ~InSection(r2)'
         /\ client_counter' # client_counter => cc_pc'[r] = "done"
         /\ cc_pc'[r] = "done" =>
              /\ client_counter' = client_counter + 1
              /\ {ClientTypePath(cc_id[r]), ClientStatePath(cc_id[r]),
                   ClientConsensusStatePath(cc_id[r], MsgHeight)} \subseteq DOMAIN store']_vars

C14_Witness ==
  \E r1, r2, r3 \in Requests :
    /\ cc_pc[r1] = "consensus_stored"
    /\ cc_pc[r2] = "decoded"
    /\ cc_pc[r3] = "done"

\* C15: UpdateClient, UpgradeClient and SubmitMisbehaviour never succeed: each
\* call returns a typed not-implemented error to its caller and leaves the
\* Host Context and the store as they were.
C15_UnimplementedIsTypedError ==
  [][(resp = NoReply /\ resp'.op \in UnimplementedHandlers) =>
       /\ resp'.status = "Unimplemented"
       /\ UNCHANGED <<store, clientVars>>]_vars

\* C16: when a read of required data fails in ClientConnections,
\* UnreceivedPackets or UnreceivedAcks, the caller receives a data-loss or
\* internal error, not a success computed as if the data were absent.
C16_ReadErrorsSurface ==
  (/\ resp.op \in {"ClientConnections", "UnreceivedPackets", "UnreceivedAcks"}
   /\ resp.rd # "ok"
   /\ resp.op = "ClientConnections" \/ resp.req[3] # <<>>)
  => resp.status \in {"DataLoss", "Internal"}

\* C17: a request with a malformed identifier or an undecodable CreateClient
\* message is rejected with an invalid-argument error, and neither the Host
\* Context nor the store changes.
MalformedRequest(reply) ==
  IF reply.op = "ClientConnections" THEN ~ValidClientId(reply.req[1])
  ELSE IF reply.op \in {"PacketCommitments", "PacketAcknowledgements",
                        "UnreceivedPackets", "UnreceivedAcks"}
  THEN ~ValidRequest(reply.req[1], reply.req[2])
  ELSE FALSE

C17_MalformedIsInvalidArgument ==
  [][/\ \A r \in Requests :
          (cc_pc[r] = "idle" /\ cc_msg'[r] = Malformed) =>
            /\ cc_resp'[r].status = "InvalidArgument"
            /\ UNCHANGED <<store, client_counter, ctx_lock>>
     /\ (resp = NoReply /\ MalformedRequest(resp')) =>
            /\ resp'.status = "InvalidArgument"
            /\ UNCHANGED <<store, clientVars>>]_vars

\* C18: when persisting the result of a creation fails, create_client returns
\* the failure to its caller as a data-loss or internal error; the request
\* ends there, without another attempt.
C18_StoreFailureIsDataLoss ==
  \A r \in Requests :
    cc_pc[r] = "failed" => cc_resp[r].status \in {"DataLoss", "Internal"}

\* C19: the response of every successful create_client carries exactly one
\* CreateClient event, with the client id that call allocated.
C19_CreateClientEventSurfaced ==
  \A r \in Requests :
    cc_pc[r] = "done" => cc_resp[r].events = <<CreateClientEvent(cc_id[r])>>

\* C20: over every sequence of store_connection calls, a stored connection
\* end stays stored and its state never moves back in Init -> TryOpen -> Open.
C20_ConnectionOnlyMovesForward ==
  [][\A id \in ConnectionIds :
       ConnectionsPath(id) \in DOMAIN store =>
         /\ ConnectionsPath(id) \in DOMAIN store'
         /\ ConnRank(store'[ConnectionsPath(id)].state)
              >= ConnRank(store[ConnectionsPath(id)].state)]_vars

\* C21: for every direction of a channel, over every sequence of
\* store_next_sequence_send / _recv / _ack calls, the stored next sequence
\* never decreases and advances by one at a time.
C21_NextSequenceContiguous ==
  [][\A dir \in Directions :
       LET path == NextSequencePath(dir, SeqChannel[1], SeqChannel[2])
       IN path \in DOMAIN store =>
            /\ path \in DOMAIN store'
            /\ store'[path] \in {store[path], store[path] + 1}]_vars

\* C22: host_consensus_state(height) reads the host consensus-state cache
\* only: for every Height it returns the state recorded for that height, and
\* it fails with the missing-host-consensus-state error iff no state was
\* recorded for that height.  The node records the states of the host chain,
\* whose heights have the revision number of the host.
RecordedHeights == {<<CHAIN_REVISION_NUMBER, n>> : n \in DOMAIN consensus_states}

C22_HostConsensusStateByHeight ==
  [][(resp = NoReply /\ resp'.op = "host_consensus_state") =>
       /\ resp'.req \in RecordedHeights =>
            resp'.status = "Ok" /\ resp'.body = HostState(RevisionHeight(resp'.req))
       /\ resp'.req \notin RecordedHeights =>
            resp'.status = "MissingLocalConsensusState"
       /\ UNCHANGED <<store, consensus_states>>]_vars

C24_LookupModuleByPort ==
  [][/\ (resp = NoReply /\ resp'.op = "lookup_module_by_port") =>
          IF resp'.req \in DOMAIN StartupPortMap
          THEN resp'.status = "Ok" /\ resp'.body = StartupPortMap[resp'.req]
          ELSE resp'.status = "UnknownPort"
     /\ port_to_module_map' = StartupPortMap]_vars

C24_Witness ==
  /\ resp.op = "lookup_module_by_port"
  /\ resp.req = "oracle"
  /\ resp.status = "UnknownPort"
  /\ consensus_states # EmptyStore
  /\ height > HostOldestHeight

\* C25: a successful ConnectionChannels(conn) returns exactly the stored
\* channel ends whose first connection hop is conn, with the current height;
\* channel ends with another first hop or with no hops are not returned.
StoredChannels == {pc \in Ports \X Channels : ChannelEndsPath(pc[1], pc[2]) \in DOMAIN store}

C25_ConnectionChannelsByFirstHop ==
  [][(resp = NoReply /\ resp'.op = "ConnectionChannels" /\ resp'.status = "Ok") =>
       /\ resp'.body =
            {[port_id |-> pc[1], channel_id |-> pc[2],
              channel_end |-> store[ChannelEndsPath(pc[1], pc[2])]] :
               pc \in {x \in StoredChannels :
                         LET hops == store[ChannelEndsPath(x[1], x[2])].connection_hops
                         IN Len(hops) >= 1 /\ hops[1] = resp'.req[1]}}
       /\ resp'.height = <<CHAIN_REVISION_NUMBER, height>>]_vars

C25_Witness ==
  /\ resp.op = "ConnectionChannels"
  /\ resp.status = "Ok"
  /\ resp.req = <<"connection-0">>
  /\ Cardinality(resp.body) = 1
  /\ Cardinality(StoredChannels) = 2
  /\ \E pc \in StoredChannels :
       store[ChannelEndsPath(pc[1], pc[2])].connection_hops = <<"connection-1", "connection-0">>
  /\ resp.height = <<CHAIN_REVISION_NUMBER, MaxHeight>>

\* C26: Channels on a store that holds no channel end succeeds with an empty
\* list and the current height.
C26_ChannelsOnEmptyStore ==
  [][(resp = NoReply /\ resp'.op = "Channels" /\ resp'.rd = "ok" /\ StoredChannels = {}) =>
       /\ resp'.status = "Ok"
       /\ resp'.body = {}
       /\ resp'.height = <<CHAIN_REVISION_NUMBER, height>>]_vars

C26_Witness ==
  /\ resp.op = "Channels"
  /\ resp.status = "Ok"
  /\ resp.body = {}
  /\ StoredChannels = {}
  /\ ConnectionsPath("connection-0") \in DOMAIN store
  /\ resp.height = <<CHAIN_REVISION_NUMBER, MaxHeight>>

\* C27: in ConsensusStates, Connections and Channels, a scanned path that
\* decodes to another kind than the one the query enumerates aborts the
\* request: no response is returned, neither a success nor an error status.
ExpectedKind(op) ==
  IF op = "Channels" THEN "ChannelEnds"
  ELSE IF op = "Connections" THEN "Connections"
  ELSE "ClientConsensusState"

C27_ForeignPathAborts ==
  [][(/\ resp = NoReply
      /\ resp'.op \in {"ConsensusStates", "Connections", "Channels"}
      /\ resp'.rd = "stray"
      /\ \E q \in DOMAIN store : DecodePath(q).kind # ExpectedKind(resp'.op)) =>
       resp'.status = "Panic" /\ resp'.body = {}]_vars

C27_Witness ==
  /\ resp.op = "Channels"
  /\ resp.status = "Panic"
  /\ StoredChannels # {}
  /\ ConnectionsPath("connection-0") \in DOMAIN store

\* C28: the height in a successful response of Channels, ConnectionChannels,
\* PacketCommitments, PacketAcknowledgements, UnreceivedPackets and
\* UnreceivedAcks is the current height when the response is built, after the
\* data reads: it is never smaller than the height at which the data was
\* read, and it may be greater.
HeightQueries ==
  {"Channels", "ConnectionChannels", "PacketCommitments", "PacketAcknowledgements",
   "UnreceivedPackets", "UnreceivedAcks"}

C28_HeightReadAtResponse ==
  [][(query.pc = "read" /\ query'.pc = "done") =>
       /\ resp'.op = query.reply.op
       /\ resp'.op \in HeightQueries
       /\ resp'.body = query.reply.body
       /\ resp'.status = "Ok" =>
            /\ resp'.height = <<CHAIN_REVISION_NUMBER, height>>
            /\ resp'.height[2] >= query.data_height]_vars

C28_Witness ==
  /\ query.pc = "done"
  /\ resp.op = "PacketCommitments"
  /\ resp.status = "Ok"
  /\ resp.body = {}
  /\ CommitmentsPath("transfer", "channel-0", 1) \in DOMAIN store
  /\ resp.height[2] > query.data_height

\* C29: every implemented query is read-only: whatever its outcome, the
\* store and the fields of the Host Context are the same after it as before.
QueryOps ==
  {"ClientStates", "ConsensusStates", "Connection", "Connections", "ClientConnections",
   "Channel", "Channels", "ConnectionChannels", "PacketCommitments",
   "PacketAcknowledgements", "UnreceivedPackets", "UnreceivedAcks"}

C29_QueriesReadOnly ==
  [][(resp = NoReply /\ resp' # NoReply /\ resp'.op \in QueryOps) =>
       UNCHANGED <<store, client_counter, conn_counter, channel_counter,
                   client_processed_times, client_processed_heights,
                   consensus_states, port_to_module_map, height>>]_vars

C29_Witness ==
  /\ resp.op = "ConnectionChannels"
  /\ resp.status = "Ok"
  /\ resp.body = {}
  /\ ChannelEndsPath("transfer", "channel-0") \in DOMAIN store
  /\ store[ChannelEndsPath("transfer", "channel-0")].connection_hops = <<>>
  /\ Cardinality(DOMAIN store) >= 7

ReadPath(op, req) ==
  IF op = "client_type" THEN ClientTypePath(req[1])
  ELSE IF op = "client_state" THEN ClientStatePath(req[1])
  ELSE ClientConsensusStatePath(req[1], req[2])

C31_ClientReadsArePure ==
  [][(resp = NoReply /\ resp'.op \in {"client_type", "client_state", "consensus_state"}) =>
       LET path == ReadPath(resp'.op, resp'.req)
       IN /\ (resp'.rd = "ok" /\ path \in DOMAIN store) =>
               resp'.status = "Ok" /\ resp'.body = store[path]
          /\ (resp'.rd # "ok" \/ path \notin DOMAIN store) =>
               resp'.status \notin {"Ok", "none"}
          /\ UNCHANGED <<store, clientVars, nodeVars, packetHist>>]_vars

C31_Witness ==
  /\ resp.op = "consensus_state"
  /\ resp.rd = "ok"
  /\ resp.status = "ImplementationSpecific"
  /\ resp.req = <<IndexedClient, Increment(MsgHeight)>>
  /\ ClientConsensusStatePath(IndexedClient, MsgHeight) \in DOMAIN store
  /\ ClientConsensusStatePath(IndexedClient, Increment(MsgHeight)) \notin DOMAIN store

\* C32: each of increase_client_counter, increase_connection_counter and
\* increase_channel_counter adds exactly 1 to its own counter and leaves the
\* other two unchanged; no other operation of the Host Context changes a
\* counter, and a step that fails undoes no increment.
Counters == <<client_counter, conn_counter, channel_counter>>
FinishesCreateClient ==
  \E r \in Requests : cc_pc[r] = "consensus_stored" /\ cc_pc'[r] = "done"

C32_CounterIncrements ==
  [][/\ client_counter' \in {client_counter, client_counter + 1}
     /\ conn_counter' \in {conn_counter, conn_counter + 1}
     /\ channel_counter' \in {channel_counter, channel_counter + 1}
     /\ Cardinality({i \in 1..3 : Counters'[i] # Counters[i]}) <= 1
     /\ client_counter' # client_counter <=> FinishesCreateClient
     /\ (store' # store \/ resp' # resp \/ cc_pc' # cc_pc) =>
          UNCHANGED <<conn_counter, channel_counter>>
     /\ (\/ resp = NoReply /\ resp'.status = "ImplementationSpecific"
         \/ \E r \in Requests : cc_pc'[r] \in {"failed", "panicked"} /\ cc_pc[r] # cc_pc'[r]) =>
          UNCHANGED Counters]_vars

C32_Witness ==
  /\ conn_counter = 1
  /\ channel_counter = 0
  /\ resp.op = "store_connection"
  /\ resp.status = "ImplementationSpecific"

\* C33: after any create_client request has ended, with a success, with an
\* error or by a panic inside the write section, the write lock of the Host
\* Context is available again: when no request is inside the section the lock
\* is free, and a later request is never refused the lock.
C33_LockAvailableAfterEnd ==
  /\ (\A r \in Requests : ~InSection(r)) => ctx_lock = 0
  /\ \A r \in Requests : cc_pc[r] = "panicked" => cc_id[r] # <<>>

\* C34: under every interleaving of PacketCommitments, ClientStates,
\* Connections or Channels with writes of the Host Context, the query ends
\* with a response or an error status: a path that the scan listed and whose
\* value is gone at the fetch never makes the request abort.
C34_ScanSurvivesWrites ==
  [][(query.pc = "read" /\ query'.pc = "done") => resp'.status # "Panic"]_vars

\* C35: no interleaving of create_client requests and queries deadlocks.  A
\* request that waits for the write lock of the Host Context holds no lock,
\* the request inside the write section is the holder of that lock, and
\* while a request is unfinished some create_client step can be taken.
CreateClientStep ==
  \E r \in Requests :
    \/ CcLock(r) \/ CcLockPoisoned(r) \/ CcAbort(r)
    \/ CcStoreClientType(r, TRUE) \/ CcStoreClientState(r, TRUE)
    \/ CcStoreConsensusState(r, TRUE) \/ CcFinish(r)

StoredClientStates ==
  {[client_id |-> id, client_state |-> AdapterGet(store, ClientStatePath(id))] :
     id \in {x \in {ClientIdNew(ty, n) : ty \in ClientTypes, n \in 0..NumRequests} :
               ClientStatePath(x) \in DOMAIN store}}

C36_QueriesBesideWriteLock ==
  [][/\ resp = NoReply => ENABLED ClientStates("ok")
     /\ (resp = NoReply /\ resp'.op = "ClientStates") =>
          /\ UNCHANGED <<ctx_lock, cc_pc, cc_resp>>
          /\ resp'.rd = "ok" => resp'.status = "Ok" /\ resp'.body = StoredClientStates]_vars

C36_Witness ==
  \E r \in Requests :
    /\ cc_pc[r] = "state_stored"
    /\ ctx_lock = r
    /\ resp.op = "ClientStates"
    /\ resp.status = "Ok"
    /\ \E e \in resp.body : e.client_id = cc_id[r]

\* C37: Connection and Channel, called with a well-formed id of an entity
\* that is not stored, return a success whose connection or channel field is
\* empty, not a NotFound error; ClientConnections for a client with no
\* connections returns a success with an empty list.
C37_MissingEntityIsEmptySuccess ==
  [][(resp = NoReply /\ resp'.rd = "ok") =>
       /\ (/\ resp'.op = "Connection"
           /\ ValidIdentifier(resp'.req[1])
           /\ ConnectionsPath(resp'.req[1]) \notin DOMAIN store) =>
            resp'.status = "Ok" /\ resp'.body = <<>>
       /\ (/\ resp'.op = "Channel"
           /\ ValidRequest(resp'.req[1], resp'.req[2])
           /\ ChannelEndsPath(resp'.req[1], resp'.req[2]) \notin DOMAIN store) =>
            resp'.status = "Ok" /\ resp'.body = <<>>
       /\ (/\ resp'.op = "ClientConnections"
           /\ ValidClientId(resp'.req[1])
           /\ ClientConnectionsPath(resp'.req[1]) \notin DOMAIN store) =>
            resp'.status = "Ok" /\ resp'.body = {}]_vars

C37_Witness ==
  /\ resp.op = "Connection"
  /\ resp.req = <<"connection-1">>
  /\ resp.status = "Ok"
  /\ resp.body = <<>>
  /\ ConnectionsPath("connection-0") \in DOMAIN store
  /\ ChannelEndsPath("transfer", "channel-0") \in DOMAIN store

====
